---- MODULE Spec2Model ----
(***************************************************************************)
(* Model of the monitoring-and-mitigation engine of go-shheissee:          *)
(*   - the findings log (pkg/monitors: AddAttack, GetRecentAttacks),       *)
(*   - the Blocker (package detector: block/unblock, AutoBlockAttack,      *)
(*     GetBlockedItems, SetAutoBlock),                                     *)
(*   - the samplers and the observation store (pkg/monitors: MonitorWifi etc). *)
(* Strings the code inspects are sequences of one-character strings;       *)
(* strings it only compares are TLA+ strings.                              *)
(***************************************************************************)
EXTENDS Integers, Sequences, FiniteSets, TLC

VARIABLES
    Attacks,          \* monitors.Attacks: the findings log
    appended,         \* history: how many findings AddAttack has been given
    logCall,          \* the last call on the findings log and what it returned
    blockedIPs,       \* Blocker.blockedIPs: address -> time of the block
    blockedMACs,      \* Blocker.blockedMACs
    blockedBTAddrs,   \* Blocker.blockedBTAddrs
    autoBlock,        \* Blocker.autoBlock
    clock,            \* time.Now(), as the Blocker reads it
    blkCall,          \* the last Blocker call: arguments, tools used, result
    items,            \* the BlockedItems value GetBlockedItems returned last
    copies,           \* the map objects that value owns (when it owns any)
    ServiceStatuses,  \* monitors.ServiceStatuses: domain -> health record
    logged,           \* history: how many events each domain's record was given
    WifiAPs,          \* monitors.WifiAPs
    WifiClients,      \* monitors.WifiClients
    BtDevices,        \* monitors.BtDevices
    BleDevices,       \* monitors.BleDevices
    scanCall,         \* the last tool step of a sampler: commands used, result
    fnCall,           \* the last call of a function that touches no shared
                      \* state: its arguments and what it returned
    pc,               \* where each sampler task stands in its pass
    loc,              \* the local variables of each sampler task
    passes,           \* how many passes each sampler has started
    seen,             \* what the last reader of a sample set observed
    mu,               \* the reader/writer locks: who holds each
    tasks             \* the tasks that call concurrently: call, position, locals

logVars == <<Attacks, appended, logCall>>
blkVars == <<blockedIPs, blockedMACs, blockedBTAddrs, autoBlock, clock, blkCall, items, copies>>
monVars == <<ServiceStatuses, logged, WifiAPs, WifiClients, BtDevices, BleDevices, scanCall,
            fnCall, pc, loc, passes, seen>>
tskVars == <<mu, tasks>>
smpVars == <<monVars, tskVars>>

-----------------------------------------------------------------------------
(* Strings                                                                 *)

\* strings.Contains(s, sub)
Contains(s, sub) ==
    \E i \in 0..(Len(s) - Len(sub)) :
        \A j \in 1..Len(sub) : s[i + j] = sub[j]

\* s[from:] of a Go slice (from is 0-based)
SliceFrom(s, from) == SubSeq(s, from + 1, Len(s))

Min(a, b) == IF a < b THEN a ELSE b

-----------------------------------------------------------------------------
(* The findings log                                                        *)

\* the cap of the log
MaxAttacks == 1000

\* how many findings one run appends at most
MaxAppends == 1003

AttackTypes ==
    <<"EVIL_TWIN", "ROGUE_AP", "WEAK_ENCRYPTION", "BLUETOOTH_MASS_SCANNING",
      "BLUETOOTH_SPOOFING", "BLUETOOTH_MITM", "SUSPICIOUS_PORT">>

\* the n-th finding handed to AddAttack (n = 1, 2, ...): its timestamp is its
\* arrival, its type runs through the vocabulary
NthFinding(n) ==
    [Type |-> AttackTypes[(n % Len(AttackTypes)) + 1], Timestamp |-> n]

\* mutant: trims the newest entries instead of the oldest
AddAttackKeepsOldest(attack) ==
    /\ appended < MaxAppends
    /\ LET grown == Append(Attacks, attack)
       IN  Attacks' = IF Len(grown) > MaxAttacks
                      THEN SubSeq(grown, 1, MaxAttacks)
                      ELSE grown
    /\ appended' = appended + 1
    /\ logCall' = [op |-> "AddAttack"]

AddAttack(attack) ==
    /\ appended < MaxAppends
    /\ LET grown == Append(Attacks, attack)
       IN  Attacks' = IF Len(grown) > MaxAttacks
                      THEN SliceFrom(grown, Len(grown) - MaxAttacks)
                      ELSE grown
    /\ appended' = appended + 1
    /\ logCall' = [op |-> "AddAttack"]

\* mutant: takes the oldest `limit` findings
RecentOfFirst(log, limit) ==
    IF limit <= 0 \/ limit > Len(log)
    THEN log
    ELSE SubSeq(log, 1, limit)

\* what GetRecentAttacks(limit) returns on the log `log`
RecentOf(log, limit) ==
    IF limit <= 0 \/ limit > Len(log)
    THEN log
    ELSE LET start == Len(log) - limit
         IN  SliceFrom(log, IF start < 0 THEN 0 ELSE start)

GetRecentAttacks(limit) ==
    /\ logCall' = [op |-> "GetRecentAttacks", limit |-> limit,
                   out |-> RecentOf(Attacks, limit)]
    /\ UNCHANGED <<Attacks, appended>>

\* the limits tried on a log of length n
Limits(n) ==
    {-1, 0, 1, 2, n - 1, n, n + 1, MaxAttacks - 1, MaxAttacks, MaxAttacks + 1}

LogInit ==
    /\ Attacks = <<>>
    /\ appended = 0
    /\ logCall = [op |-> "none"]

LogAppend == AddAttack(NthFinding(appended + 1)) /\ UNCHANGED <<blkVars, smpVars>>

LogRecent ==
    /\ \E limit \in Limits(Len(Attacks)) : GetRecentAttacks(limit)
    /\ UNCHANGED <<blkVars, smpVars>>

-----------------------------------------------------------------------------
(* The Blocker                                                             *)

\* how many blocks one run records at most (each reads time.Now() once)
MaxClock == 2

DottedAddr == <<"1", ".", "2">>
PlainAddr == <<"a", ":", "b">>
Addrs == {DottedAddr, PlainAddr}

EmptyMap == [k \in {} |-> 0]
Has(m, k) == k \in DOMAIN m
Put(m, k, v) == [x \in (DOMAIN m) \cup {k} |-> IF x = k THEN v ELSE m[x]]
Delete(m, k) == [x \in (DOMAIN m) \ {k} |-> m[x]]

\* time.Now() of the next block that is recorded
Now == clock + 1

\* The host: which tools exec.LookPath finds, and which commands exit non-zero.
isCommandAvailable(env, cmd) == cmd \in env.avail
Run(env, cmd) == [cmd |-> cmd, ok |-> cmd \notin env.failing]

NoEnv == [avail |-> {}, failing |-> {}]

\* what a call did and returned, with the three maps as it leaves them
Outcome(err, lookups, runs, now, ips, macs, bts) ==
    [err |-> err, lookups |-> lookups, runs |-> runs, now |-> now,
     ips |-> ips, macs |-> macs, bts |-> bts]

Untouched(err, lookups, runs) ==
    Outcome(err, lookups, runs, FALSE, blockedIPs, blockedMACs, blockedBTAddrs)

AllOk(runs) == \A i \in 1..Len(runs) : runs[i].ok

\* the cascade of BlockIP and of UnblockIP, going on to iptables when ufw fails
FirewallCascadeFallsBack(env) ==
    IF isCommandAvailable(env, "ufw")
    THEN LET first == Run(env, "ufw")
         IN  [lookups |-> <<"ufw">>,
              runs |-> IF ~first.ok /\ isCommandAvailable(env, "iptables")
                       THEN <<first, Run(env, "iptables")>>
                       ELSE <<first>>,
              found |-> TRUE]
    ELSE IF isCommandAvailable(env, "firewall-cmd")
    THEN LET rule == Run(env, "firewall-cmd")
         IN  [lookups |-> <<"ufw", "firewall-cmd">>,
              runs |-> IF rule.ok
                       THEN <<rule, Run(env, "firewall-cmd --reload")>>
                       ELSE <<rule>>,
              found |-> TRUE]
    ELSE IF isCommandAvailable(env, "iptables")
    THEN [lookups |-> <<"ufw", "firewall-cmd", "iptables">>,
          runs |-> <<Run(env, "iptables")>>, found |-> TRUE]
    ELSE [lookups |-> <<"ufw", "firewall-cmd", "iptables">>, runs |-> <<>>,
          found |-> FALSE]

\* The tool cascade of BlockIP and of UnblockIP (the same if/else chain, with the
\* inverse commands): the tools looked up, the commands run, whether a tool was found.
\* With firewall-cmd the rule command runs first; when it fails, cmd still holds
\* it and the second cmd.Run() returns an error without starting a process.
FirewallCascade(env) ==
    IF isCommandAvailable(env, "ufw")
    THEN [lookups |-> <<"ufw">>, runs |-> <<Run(env, "ufw")>>, found |-> TRUE]
    ELSE IF isCommandAvailable(env, "firewall-cmd")
    THEN LET rule == Run(env, "firewall-cmd")
         IN  [lookups |-> <<"ufw", "firewall-cmd">>,
              runs |-> IF rule.ok
                       THEN <<rule, Run(env, "firewall-cmd --reload")>>
                       ELSE <<rule>>,
              found |-> TRUE]
    ELSE IF isCommandAvailable(env, "iptables")
    THEN [lookups |-> <<"ufw", "firewall-cmd", "iptables">>,
          runs |-> <<Run(env, "iptables")>>, found |-> TRUE]
    ELSE [lookups |-> <<"ufw", "firewall-cmd", "iptables">>, runs |-> <<>>,
          found |-> FALSE]

\* mutant: records the block again when the address is already blocked
BlockIPOverwrites(ip, env) ==
    LET c == FirewallCascade(env)
    IN  IF Has(blockedIPs, ip)
        THEN Outcome("conflict", <<>>, <<>>, TRUE,
                     Put(blockedIPs, ip, Now), blockedMACs, blockedBTAddrs)
        ELSE IF ~c.found THEN Untouched("no_tool", c.lookups, c.runs)
        ELSE IF ~AllOk(c.runs) THEN Untouched("tool_failed", c.lookups, c.runs)
        ELSE Outcome("none", c.lookups, c.runs, TRUE,
                     Put(blockedIPs, ip, Now), blockedMACs, blockedBTAddrs)

\* mutant: records the block although the tool failed
BlockIPRecordsOnFailure(ip, env) ==
    LET c == FirewallCascade(env)
    IN  IF Has(blockedIPs, ip) THEN Untouched("conflict", <<>>, <<>>)
        ELSE IF ~c.found THEN Untouched("no_tool", c.lookups, c.runs)
        ELSE IF ~AllOk(c.runs)
        THEN Outcome("tool_failed", c.lookups, c.runs, TRUE,
                     Put(blockedIPs, ip, Now), blockedMACs, blockedBTAddrs)
        ELSE Outcome("none", c.lookups, c.runs, TRUE,
                     Put(blockedIPs, ip, Now), blockedMACs, blockedBTAddrs)

\* Blocker.BlockIP(ip, reason)
BlockIPDoes(ip, env) ==
    LET c == FirewallCascade(env)
    IN  IF Has(blockedIPs, ip) THEN Untouched("conflict", <<>>, <<>>)
        ELSE IF ~c.found THEN Untouched("no_tool", c.lookups, c.runs)
        ELSE IF ~AllOk(c.runs) THEN Untouched("tool_failed", c.lookups, c.runs)
        ELSE Outcome("none", c.lookups, c.runs, TRUE,
                     Put(blockedIPs, ip, Now), blockedMACs, blockedBTAddrs)

\* Blocker.UnblockIP(ip)
UnblockIPDoes(ip, env) ==
    LET c == FirewallCascade(env)
    IN  IF ~Has(blockedIPs, ip) THEN Untouched("conflict", <<>>, <<>>)
        ELSE IF ~c.found THEN Untouched("no_tool", c.lookups, c.runs)
        ELSE IF ~AllOk(c.runs) THEN Untouched("tool_failed", c.lookups, c.runs)
        ELSE Outcome("none", c.lookups, c.runs, FALSE,
                     Delete(blockedIPs, ip), blockedMACs, blockedBTAddrs)

\* the tool paths of BlockMAC and of UnblockMAC, giving up when ebtables fails
MACCascadeNoFallback(env) ==
    LET eb == isCommandAvailable(env, "ebtables")
        ebRun == IF eb THEN <<Run(env, "ebtables")>> ELSE <<>>
    IN  IF eb
        THEN [lookups |-> <<"ebtables">>, runs |-> ebRun,
              err |-> IF ebRun[1].ok THEN "none" ELSE "tool_failed"]
        ELSE IF isCommandAvailable(env, "iptables")
        THEN LET ipt == Run(env, "iptables")
             IN  [lookups |-> <<"ebtables", "iptables">>,
                  runs |-> Append(ebRun, ipt),
                  err |-> IF ipt.ok THEN "none" ELSE "tool_failed"]
        ELSE [lookups |-> <<"ebtables", "iptables">>, runs |-> ebRun,
              err |-> "no_tool"]

\* The two tool paths of BlockMAC and of UnblockMAC: ebtables when available,
\* then iptables when ebtables is unavailable or failed.
\* err is "none" as soon as one path succeeded.
MACCascade(env) ==
    LET eb == isCommandAvailable(env, "ebtables")
        ebRun == IF eb THEN <<Run(env, "ebtables")>> ELSE <<>>
    IN  IF eb /\ ebRun[1].ok
        THEN [lookups |-> <<"ebtables">>, runs |-> ebRun, err |-> "none"]
        ELSE IF isCommandAvailable(env, "iptables")
        THEN LET ipt == Run(env, "iptables")
             IN  [lookups |-> <<"ebtables", "iptables">>,
                  runs |-> Append(ebRun, ipt),
                  err |-> IF ipt.ok THEN "none" ELSE "tool_failed"]
        ELSE [lookups |-> <<"ebtables", "iptables">>, runs |-> ebRun,
              err |-> "no_tool"]

\* Blocker.BlockMAC(mac, reason)
BlockMACDoes(mac, env) ==
    LET c == MACCascade(env)
    IN  IF Has(blockedMACs, mac) THEN Untouched("conflict", <<>>, <<>>)
        ELSE IF c.err # "none" THEN Untouched(c.err, c.lookups, c.runs)
        ELSE Outcome("none", c.lookups, c.runs, TRUE,
                     blockedIPs, Put(blockedMACs, mac, Now), blockedBTAddrs)

\* Blocker.UnblockMAC(mac)
UnblockMACDoes(mac, env) ==
    LET c == MACCascade(env)
    IN  IF ~Has(blockedMACs, mac) THEN Untouched("conflict", <<>>, <<>>)
        ELSE IF c.err # "none" THEN Untouched(c.err, c.lookups, c.runs)
        ELSE Outcome("none", c.lookups, c.runs, FALSE,
                     blockedIPs, Delete(blockedMACs, mac), blockedBTAddrs)

\* rfkill, when available, is run; when it is absent nothing is run
RfkillRun(env) ==
    IF isCommandAvailable(env, "rfkill") THEN <<Run(env, "rfkill")>> ELSE <<>>

\* BlockBluetoothDevice refusing to record when rfkill is absent
BlockBluetoothDeviceNeedsRfkill(btAddr, env) ==
    LET runs == RfkillRun(env)
    IN  IF Has(blockedBTAddrs, btAddr) THEN Untouched("conflict", <<>>, <<>>)
        ELSE IF ~isCommandAvailable(env, "rfkill")
        THEN Untouched("no_tool", <<"rfkill">>, runs)
        ELSE IF ~AllOk(runs) THEN Untouched("tool_failed", <<"rfkill">>, runs)
        ELSE Outcome("none", <<"rfkill">>, runs, TRUE,
                     blockedIPs, blockedMACs, Put(blockedBTAddrs, btAddr, Now))

\* Blocker.BlockBluetoothDevice(btAddr, reason)
BlockBluetoothDeviceDoes(btAddr, env) ==
    LET runs == RfkillRun(env)
    IN  IF Has(blockedBTAddrs, btAddr) THEN Untouched("conflict", <<>>, <<>>)
        ELSE IF ~AllOk(runs) THEN Untouched("tool_failed", <<"rfkill">>, runs)
        ELSE Outcome("none", <<"rfkill">>, runs, TRUE,
                     blockedIPs, blockedMACs, Put(blockedBTAddrs, btAddr, Now))

\* Blocker.UnblockBluetoothDevice(btAddr)
UnblockBluetoothDeviceDoes(btAddr, env) ==
    LET runs == RfkillRun(env)
    IN  IF ~Has(blockedBTAddrs, btAddr) THEN Untouched("conflict", <<>>, <<>>)
        ELSE IF ~AllOk(runs) THEN Untouched("tool_failed", <<"rfkill">>, runs)
        ELSE Outcome("none", <<"rfkill">>, runs, FALSE,
                     blockedIPs, blockedMACs, Delete(blockedBTAddrs, btAddr))

IPAttackTypes == {"UNKNOWN_DEVICE", "SUSPICIOUS_PORT", "AI_CONNECTION_ANOMALY"}
BTAttackTypes == {"BLUETOOTH_SPOOFING", "BLUETOOTH_MITM"}
WifiAttackTypes == {"EVIL_TWIN", "ROGUE_AP"}

\* mutant: ignores the auto-block flag
AutoBlockAttackAlways(attack, env) ==
    IF attack.Type \in IPAttackTypes
    THEN IF Contains(attack.Target, <<".">>)
         THEN BlockIPDoes(attack.Target, env)
         ELSE Untouched("none", <<>>, <<>>)
    ELSE IF attack.Type \in BTAttackTypes
    THEN BlockBluetoothDeviceDoes(attack.Target, env)
    ELSE Untouched("none", <<>>, <<>>)

\* mutant: blocks the target as an IP whatever its shape
AutoBlockAttackNoDotTest(attack, env) ==
    IF ~autoBlock THEN Untouched("none", <<>>, <<>>)
    ELSE IF attack.Type \in IPAttackTypes
    THEN BlockIPDoes(attack.Target, env)
    ELSE IF attack.Type \in BTAttackTypes
    THEN BlockBluetoothDeviceDoes(attack.Target, env)
    ELSE Untouched("none", <<>>, <<>>)

\* mutant: sends Bluetooth findings to BlockIP as well
AutoBlockAttackBTAsIP(attack, env) ==
    IF ~autoBlock THEN Untouched("none", <<>>, <<>>)
    ELSE IF attack.Type \in IPAttackTypes \cup BTAttackTypes
    THEN IF Contains(attack.Target, <<".">>)
         THEN BlockIPDoes(attack.Target, env)
         ELSE Untouched("none", <<>>, <<>>)
    ELSE Untouched("none", <<>>, <<>>)

\* Blocker.AutoBlockAttack(attack): EVIL_TWIN and ROGUE_AP only log, every
\* other type falls out of the switch
AutoBlockAttackDoes(attack, env) ==
    IF ~autoBlock THEN Untouched("none", <<>>, <<>>)
    ELSE IF attack.Type \in IPAttackTypes
    THEN IF Contains(attack.Target, <<".">>)
         THEN BlockIPDoes(attack.Target, env)
         ELSE Untouched("none", <<>>, <<>>)
    ELSE IF attack.Type \in BTAttackTypes
    THEN BlockBluetoothDeviceDoes(attack.Target, env)
    ELSE Untouched("none", <<>>, <<>>)

Call(op, target, type, enabled, lookups, runs, err) ==
    [op |-> op, target |-> target, type |-> type, enabled |-> enabled,
     lookups |-> lookups, runs |-> runs, err |-> err]

\* a call that did r: the maps, the clock and the record of the call
Commit(op, target, type, r) ==
    /\ r.now => clock < MaxClock
    /\ blockedIPs' = r.ips
    /\ blockedMACs' = r.macs
    /\ blockedBTAddrs' = r.bts
    /\ clock' = IF r.now THEN clock + 1 ELSE clock
    /\ blkCall' = Call(op, target, type, autoBlock, r.lookups, r.runs, r.err)
    /\ UNCHANGED <<autoBlock, items, copies>>

BlockIP(ip, env) == Commit("BlockIP", ip, "", BlockIPDoes(ip, env))
UnblockIP(ip, env) == Commit("UnblockIP", ip, "", UnblockIPDoes(ip, env))
BlockMAC(mac, env) == Commit("BlockMAC", mac, "", BlockMACDoes(mac, env))
UnblockMAC(mac, env) == Commit("UnblockMAC", mac, "", UnblockMACDoes(mac, env))
BlockBluetoothDevice(a, env) ==
    Commit("BlockBluetoothDevice", a, "", BlockBluetoothDeviceDoes(a, env))
UnblockBluetoothDevice(a, env) ==
    Commit("UnblockBluetoothDevice", a, "", UnblockBluetoothDeviceDoes(a, env))
AutoBlockAttack(attack, env) ==
    Commit("AutoBlockAttack", attack.Target, attack.Type,
           AutoBlockAttackDoes(attack, env))

\* SetAutoBlock flipping the flag whatever the value asked for
SetAutoBlockFlips(enabled) ==
    /\ autoBlock' = ~autoBlock
    /\ blkCall' = Call("SetAutoBlock", <<>>, "", enabled, <<>>, <<>>, "none")
    /\ UNCHANGED <<blockedIPs, blockedMACs, blockedBTAddrs, clock, items, copies>>

\* Blocker.SetAutoBlock(enabled)
SetAutoBlock(enabled) ==
    /\ autoBlock' = enabled
    /\ blkCall' = Call("SetAutoBlock", <<>>, "", enabled, <<>>, <<>>, "none")
    /\ UNCHANGED <<blockedIPs, blockedMACs, blockedBTAddrs, clock, items, copies>>

\* Map objects: the Blocker's three maps, and the three maps a BlockedItems
\* value returned by GetBlockedItems owns.
OwnRefs == {"blockedIPs", "blockedMACs", "blockedBTAddrs"}
CopyRefs == {"copyIPs", "copyMACs", "copyBTAddrs"}

\* the map a reference points to
Deref(ref) ==
    IF ref = "blockedIPs" THEN blockedIPs
    ELSE IF ref = "blockedMACs" THEN blockedMACs
    ELSE IF ref = "blockedBTAddrs" THEN blockedBTAddrs
    ELSE copies[ref]

\* mutant: hands out the original map
copyBlockedMapAlias(original, fresh) ==
    [ref |-> original, content |-> Deref(original)]

\* Blocker.copyBlockedMap(original): a new map object (at `fresh`) holding the
\* entries of the original
copyBlockedMap(original, fresh) ==
    [ref |-> fresh, content |-> Deref(original)]

\* Blocker.GetBlockedItems()
GetBlockedItems ==
    LET ips == copyBlockedMap("blockedIPs", "copyIPs")
        macs == copyBlockedMap("blockedMACs", "copyMACs")
        bts == copyBlockedMap("blockedBTAddrs", "copyBTAddrs")
    IN  /\ items' = [taken |-> TRUE, BlockedIPs |-> ips.ref,
                     BlockedMACs |-> macs.ref, BlockedBTAddrs |-> bts.ref]
        /\ copies' = [copyIPs |-> ips.content, copyMACs |-> macs.content,
                      copyBTAddrs |-> bts.content]
        /\ blkCall' = Call("GetBlockedItems", <<>>, "", autoBlock, <<>>, <<>>, "none")
        /\ UNCHANGED <<blockedIPs, blockedMACs, blockedBTAddrs, autoBlock, clock>>

ItemFields == {"BlockedIPs", "BlockedMACs", "BlockedBTAddrs"}

\* a write through a map reference
WriteRef(ref, m) ==
    /\ blockedIPs' = IF ref = "blockedIPs" THEN m ELSE blockedIPs
    /\ blockedMACs' = IF ref = "blockedMACs" THEN m ELSE blockedMACs
    /\ blockedBTAddrs' = IF ref = "blockedBTAddrs" THEN m ELSE blockedBTAddrs
    /\ copies' = IF ref \in CopyRefs THEN [copies EXCEPT ![ref] = m] ELSE copies

\* the caller of GetBlockedItems adds an entry (with the zero time) to a map of
\* the value it got
ItemsPut(field, a) ==
    /\ items.taken
    /\ WriteRef(items[field], Put(Deref(items[field]), a, 0))
    /\ blkCall' = Call("ItemsPut", a, field, autoBlock, <<>>, <<>>, "none")
    /\ UNCHANGED <<autoBlock, clock, items>>

\* the caller of GetBlockedItems deletes an entry of a map of the value it got
ItemsDelete(field, a) ==
    /\ items.taken
    /\ WriteRef(items[field], Delete(Deref(items[field]), a))
    /\ blkCall' = Call("ItemsDelete", a, field, autoBlock, <<>>, <<>>, "none")
    /\ UNCHANGED <<autoBlock, clock, items>>

\* NewBlocker(logger, autoBlock)
BlkInit ==
    /\ blockedIPs = EmptyMap
    /\ blockedMACs = EmptyMap
    /\ blockedBTAddrs = EmptyMap
    /\ autoBlock \in BOOLEAN
    /\ clock = 0
    /\ blkCall = Call("NewBlocker", <<>>, "", autoBlock, <<>>, <<>>, "none")
    /\ items = [taken |-> FALSE, BlockedIPs |-> "copyIPs",
                BlockedMACs |-> "copyMACs", BlockedBTAddrs |-> "copyBTAddrs"]
    /\ copies = [copyIPs |-> EmptyMap, copyMACs |-> EmptyMap, copyBTAddrs |-> EmptyMap]

\* the commands a tool is run with
CommandsOf(tool) ==
    IF tool = "firewall-cmd" THEN {"firewall-cmd", "firewall-cmd --reload"} ELSE {tool}

\* The hosts tried: every set of installed tools among `tools`, and every set of
\* commands of the installed tools that exit non-zero.
Envs(tools) ==
    UNION {{[avail |-> a, failing |-> f] :
                f \in SUBSET (UNION {CommandsOf(t) : t \in a})} :
           a \in SUBSET tools}

IPEnvs == Envs({"ufw", "firewall-cmd", "iptables"})
MACEnvs == Envs({"ebtables", "iptables"})
BTEnvs == Envs({"rfkill"})

\* the host where every tool is installed and works
GoodEnv ==
    [avail |-> {"ufw", "firewall-cmd", "iptables", "ebtables", "rfkill"},
     failing |-> {}]

FindingTypes ==
    IPAttackTypes \cup BTAttackTypes \cup WifiAttackTypes \cup {"WEAK_ENCRYPTION"}

EnvsFor(type) ==
    IF type \in IPAttackTypes THEN IPEnvs
    ELSE IF type \in BTAttackTypes THEN BTEnvs
    ELSE {NoEnv}

Findings == [Type : FindingTypes, Target : Addrs]

-----------------------------------------------------------------------------
(* Package strings and strconv, as the samplers use them                   *)

\* unicode.IsSpace on the characters tool output is made of
IsSpace(c) == c \in {" ", "\t", "\n", "\r"}

RECURSIVE TrimLeft(_)
TrimLeft(s) ==
    IF s # <<>> /\ IsSpace(Head(s)) THEN TrimLeft(Tail(s)) ELSE s

RECURSIVE TrimRight(_)
TrimRight(s) ==
    IF s # <<>> /\ IsSpace(s[Len(s)])
    THEN TrimRight(SubSeq(s, 1, Len(s) - 1))
    ELSE s

\* strings.TrimSpace(s)
TrimSpace(s) == TrimRight(TrimLeft(s))

\* strings.HasPrefix(s, prefix)
HasPrefix(s, prefix) ==
    Len(s) >= Len(prefix) /\ SubSeq(s, 1, Len(prefix)) = prefix

\* strings.HasSuffix(s, suffix)
HasSuffix(s, suffix) ==
    Len(s) >= Len(suffix) /\ SubSeq(s, Len(s) - Len(suffix) + 1, Len(s)) = suffix

\* strings.TrimSuffix(s, suffix)
TrimSuffix(s, suffix) ==
    IF HasSuffix(s, suffix) THEN SubSeq(s, 1, Len(s) - Len(suffix)) ELSE s

\* strings.Index(s, sub), counted from 1; 0 when sub does not occur
Index(s, sub) ==
    IF Contains(s, sub)
    THEN CHOOSE i \in 1..(Len(s) - Len(sub) + 1) :
            /\ SubSeq(s, i, i + Len(sub) - 1) = sub
            /\ \A k \in 1..(i - 1) : SubSeq(s, k, k + Len(sub) - 1) # sub
    ELSE 0

\* strings.Split(s, sep) for a non-empty sep
RECURSIVE Split(_, _)
Split(s, sep) ==
    LET i == Index(s, sep)
    IN  IF i = 0
        THEN <<s>>
        ELSE <<SubSeq(s, 1, i - 1)>> \o Split(SubSeq(s, i + Len(sep), Len(s)), sep)

\* strings.Fields(s): the maximal runs of non-space characters
RECURSIVE Fields(_)
Fields(s) ==
    LET t == TrimLeft(s)
        stop == IF \E i \in 1..Len(t) : IsSpace(t[i])
                THEN CHOOSE i \in 1..Len(t) :
                        IsSpace(t[i]) /\ \A k \in 1..(i - 1) : ~IsSpace(t[k])
                ELSE Len(t) + 1
    IN  IF t = <<>>
        THEN <<>>
        ELSE <<SubSeq(t, 1, stop - 1)>> \o Fields(SubSeq(t, stop, Len(t)))

\* strings.Join(parts, sep)
RECURSIVE Join(_, _)
Join(parts, sep) ==
    IF parts = <<>> THEN <<>>
    ELSE IF Len(parts) = 1 THEN parts[1]
    ELSE parts[1] \o sep \o Join(Tail(parts), sep)

UpperCase ==
    <<"A", "B", "C", "D", "E", "F", "G", "H", "I", "J", "K", "L", "M",
      "N", "O", "P", "Q", "R", "S", "T", "U", "V", "W", "X", "Y", "Z">>

LowerCase ==
    <<"a", "b", "c", "d", "e", "f", "g", "h", "i", "j", "k", "l", "m",
      "n", "o", "p", "q", "r", "s", "t", "u", "v", "w", "x", "y", "z">>

\* strings.ToLower(s)
ToLower(s) ==
    [i \in 1..Len(s) |->
        IF \E k \in 1..Len(UpperCase) : UpperCase[k] = s[i]
        THEN LowerCase[CHOOSE k \in 1..Len(UpperCase) : UpperCase[k] = s[i]]
        ELSE s[i]]

DecimalDigits == <<"0", "1", "2", "3", "4", "5", "6", "7", "8", "9">>

IsDigit(c) == \E k \in 1..Len(DecimalDigits) : DecimalDigits[k] = c

RECURSIVE DigitsValue(_)
DigitsValue(s) ==
    IF s = <<>> THEN 0
    ELSE 10 * DigitsValue(SubSeq(s, 1, Len(s) - 1))
         + (CHOOSE k \in 1..Len(DecimalDigits) : DecimalDigits[k] = s[Len(s)]) - 1

\* strconv.Atoi(s) with its error dropped: 0 when s is not a decimal integer
Atoi(s) ==
    LET signed == s # <<>> /\ Head(s) \in {"-", "+"}
        body == IF signed THEN Tail(s) ELSE s
    IN  IF body = <<>> \/ \E i \in 1..Len(body) : ~IsDigit(body[i])
        THEN 0
        ELSE IF signed /\ Head(s) = "-" THEN 0 - DigitsValue(body)
        ELSE DigitsValue(body)

-----------------------------------------------------------------------------
(* The tool invoker: runCommandOrSudo                                      *)

\* the error patterns runCommandOrSudo always looks for
sudoIndicators ==
    <<<<"P", "e", "r", "m", "i", "s", "s", "i", "o", "n", " ", "d", "e", "n", "i", "e", "d">>,
      <<"O", "p", "e", "r", "a", "t", "i", "o", "n", " ", "n", "o", "t", " ", "p", "e", "r", "m", "i", "t", "t", "e", "d">>,
      <<"D", "e", "v", "i", "c", "e", " ", "o", "r", " ", "r", "e", "s", "o", "u", "r", "c", "e", " ", "b", "u", "s", "y">>,
      <<"i", "n", "t", "e", "r", "f", "a", "c", "e", " ", "n", "o", "t", " ", "i", "n", " ", "m", "o", "n", "i", "t", "o", "r", " ", "m", "o", "d", "e">>,
      <<"n", "o", " ", "s", "u", "c", "h", " ", "d", "e", "v", "i", "c", "e">>,
      <<"r", "t", "l", "_", "p", "o", "w", "e", "r", ":", " ", "f", "a", "i", "l", "e", "d", " ", "t", "o", " ", "o", "p", "e", "n", " ", "r", "t", "l">>>>

\* The host as one call of runCommandOrSudo meets it: the combined output and
\* the error of the command (<<>> for nil), the path exec.LookPath("sudo")
\* finds ("" when there is none), and the combined output and error of the
\* command when run through sudo.
SudoHost(first, sudo, elevated) == [first |-> first, sudo |-> sudo, elevated |-> elevated]

\* whether the failure text of the first attempt asks for elevation
needsSudo(expectedErrorPatterns, result) ==
    LET errorStr == result.output \o result.err
        indicators == sudoIndicators \o expectedErrorPatterns
    IN  \E k \in 1..Len(indicators) : Contains(errorStr, indicators[k])

\* mutant: hands back the first attempt although it ran the command with sudo
runCommandOrSudoKeepsFirst(cmd, expectedErrorPatterns, host) ==
    IF /\ host.first.err # <<>>
       /\ needsSudo(expectedErrorPatterns, host.first)
       /\ host.sudo # ""
    THEN [cmd |-> cmd, output |-> host.first.output, err |-> host.first.err,
          runs |-> <<cmd, <<host.sudo>> \o cmd>>]
    ELSE [cmd |-> cmd, output |-> host.first.output, err |-> host.first.err,
          runs |-> <<cmd>>]

\* mutant: retries with sudo after any failure
runCommandOrSudoAlways(cmd, expectedErrorPatterns, host) ==
    IF /\ host.first.err # <<>>
       /\ host.sudo # ""
    THEN [cmd |-> <<host.sudo>> \o cmd, output |-> host.elevated.output,
          err |-> host.elevated.err, runs |-> <<cmd, <<host.sudo>> \o cmd>>]
    ELSE [cmd |-> cmd, output |-> host.first.output, err |-> host.first.err,
          runs |-> <<cmd>>]

\* runCommandOrSudo(cmd, expectedErrorPatterns): the command, output and error
\* it returns, and the commands it ran, in order
runCommandOrSudo(cmd, expectedErrorPatterns, host) ==
    IF /\ host.first.err # <<>>
       /\ needsSudo(expectedErrorPatterns, host.first)
       /\ host.sudo # ""
    THEN [cmd |-> <<host.sudo>> \o cmd, output |-> host.elevated.output,
          err |-> host.elevated.err, runs |-> <<cmd, <<host.sudo>> \o cmd>>]
    ELSE [cmd |-> cmd, output |-> host.first.output, err |-> host.first.err,
          runs |-> <<cmd>>]

\* the commands, caller patterns and hosts tried
SudoCommands == {<<"timeout", "10", "hcitool", "scan">>, <<"timeout", "10", "bluetoothctl", "devices">>}

SudoPatterns == {<<>>, <<<<"N", "o", " ", "d", "e", "f", "a", "u", "l", "t", " ", "c", "o", "n", "t", "r", "o", "l", "l", "e", "r", " ", "a", "v", "a", "i", "l", "a", "b", "l", "e">>>>}

SudoOutputs == {<<>>, <<"P", "e", "r", "m", "i", "s", "s", "i", "o", "n", " ", "d", "e", "n", "i", "e", "d">>, <<"N", "o", " ", "d", "e", "f", "a", "u", "l", "t", " ", "c", "o", "n", "t", "r", "o", "l", "l", "e", "r", " ", "a", "v", "a", "i", "l", "a", "b", "l", "e">>, <<"n", "o", " ", "s", "u", "c", "h", " ">>}

SudoErrors == {<<>>, <<"e", "x", "i", "t", " ", "s", "t", "a", "t", "u", "s", " ", "1">>, <<"d", "e", "v", "i", "c", "e", " ", "b", "u", "s", "y">>}

SudoHosts ==
    {SudoHost(first, sudo, elevated) :
        first \in [output : SudoOutputs, err : SudoErrors],
        sudo \in {"", "/usr/bin/sudo"},
        elevated \in {[output |-> <<>>, err |-> <<>>],
                      [output |-> <<"P", "e", "r", "m", "i", "s", "s", "i", "o", "n", " ", "d", "e", "n", "i", "e", "d">>, err |-> <<"e", "x", "i", "t", " ", "s", "t", "a", "t", "u", "s", " ", "1">>]}}

\* a call of runCommandOrSudo
RunCommandOrSudo(cmd, expectedErrorPatterns, host) ==
    /\ fnCall' = [fn |-> "runCommandOrSudo", cmd |-> cmd,
                  patterns |-> expectedErrorPatterns, host |-> host,
                  ret |-> runCommandOrSudo(cmd, expectedErrorPatterns, host)]
    /\ UNCHANGED <<logVars, blkVars, ServiceStatuses, logged, WifiAPs, WifiClients,
                   BtDevices, BleDevices, scanCall, pc, loc, passes, seen, tskVars>>

-----------------------------------------------------------------------------
(* The health records (ServiceStatuses, under StatusMu)                    *)

\* the cap the samplers put on a record's LogEntries
MaxLogEntries == 10

\* ServiceStatuses before any sampler ran: no record
NoStatuses == [d \in {} |-> 0]

\* &ServiceStatus{Name: name, Status: "running", LogEntries: []string{}};
\* LastUpdate, a formatted wall-clock time nothing reads back, is left out
NewServiceStatus(name) ==
    [Name |-> name, Status |-> "running", ErrorMsg |-> "", LogEntries |-> <<>>]

\* if ServiceStatuses[d] == nil { ServiceStatuses[d] = &ServiceStatus{...} }
EnsureStatus(statuses, d, name) ==
    IF d \in DOMAIN statuses
    THEN statuses
    ELSE statuses @@ (d :> NewServiceStatus(name))

\* the event a sampler records next for domain d. Its text starts with the
\* time of day, so two events of one record are never taken for one another:
\* an event is identified by its rank among the events recorded for d.
NextEvent(d) == logged[d] + 1

\* if len(LogEntries) > 10 { LogEntries = LogEntries[len(LogEntries)-10:] }
TrimLogEntries(entries) ==
    IF Len(entries) > MaxLogEntries
    THEN SliceFrom(entries, Len(entries) - MaxLogEntries)
    ELSE entries

\* Status, ErrorMsg and LogEntries of record d assigned in one StatusMu section
SetStatus(d, status, msg, entries) ==
    /\ ServiceStatuses' =
          [ServiceStatuses EXCEPT ![d] =
              [@ EXCEPT !.Status = status, !.ErrorMsg = msg, !.LogEntries = entries]]
    /\ logged' = [logged EXCEPT ![d] =
                     IF entries = ServiceStatuses[d].LogEntries THEN @ ELSE @ + 1]

\* a task moves on in its pass
Goto(task, label) == pc' = [pc EXCEPT ![task] = label]

\* the record of a tool step of sampler `task`: the commands it looked up or
\* ran, in order, whether the last of them failed, and the output it gave
ScanCall(task, runs, err, output) ==
    [task |-> task, runs |-> runs, err |-> err, output |-> output]

\* the cascade step of a Bluetooth sampler: the commands run, the tools of the
\* cascade tried, and the result that stands with its exit code
CascadeCall(task, runs, tried, result) ==
    [task |-> task, runs |-> runs, tried |-> tried, err |-> result.err,
     code |-> IF "code" \in DOMAIN result THEN result.code
              ELSE IF result.err THEN 1 ELSE 0,
     output |-> result.output]

-----------------------------------------------------------------------------
(* The Wi-Fi sampler: MonitorWifi and fallbackScanWifi                     *)

\* how many passes the Wi-Fi sampler makes at most
MaxWifiPasses == 11

\* what getWifiInterfaces can return: an error, no interface, one interface
WifiInterfaceResults ==
    {[err |-> TRUE, interfaces |-> <<>>],
     [err |-> FALSE, interfaces |-> <<>>],
     [err |-> FALSE, interfaces |-> <<"wlan0">>]}

\* The host as getOrCreateMonitorInterface meets it: the interface iwconfig
\* lists in Monitor mode ("" when none, or when iwconfig fails), what
\* getWifiInterfaces returns, whether `iwconfig <if> mode monitor` exits 0.
MonitorHosts ==
    [monitor : {"", "wlan0mon"}, wireless : WifiInterfaceResults, setMode : BOOLEAN]

\* getOrCreateMonitorInterface: the interface name and the error ("" for nil)
getOrCreateMonitorInterface(host) ==
    IF host.monitor # ""
    THEN [name |-> host.monitor, err |-> ""]
    ELSE IF host.wireless.err \/ Len(host.wireless.interfaces) = 0
    THEN [name |-> "", err |-> "no WiFi interfaces found"]
    ELSE IF ~host.setMode
    THEN [name |-> "", err |-> "failed to set monitor mode"]
    ELSE [name |-> host.wireless.interfaces[1], err |-> ""]

\* the lines `iw dev <if> scan` prints for one access point
BSSLine(bssid) == <<"B", "S", "S", " ">> \o bssid \o <<"(", "o", "n", ")">>
SignalLine(dbm) == <<"\t", "s", "i", "g", "n", "a", "l", ":", " ">> \o dbm \o <<" ", "d", "B", "m">>
SSIDLine(ssid) == <<"\t", "S", "S", "I", "D", ":", " ">> \o ssid

\* the outputs of a successful scan that are tried
IwOutputs ==
    {<<>>,
     Join(<<BSSLine(<<"a", "1">>), SignalLine(<<"-", "4", "0">>),
            SSIDLine(<<"H", "o", "m", "e">>)>>, <<"\n">>),
     Join(<<BSSLine(<<"a", "1">>), SSIDLine(<<"H", "o", "m", "e">>),
            BSSLine(<<"b", "2">>), SignalLine(<<"-", "7", ".", "5">>),
            SSIDLine(<<"H", "o", "m", "e">>), <<>>>>, <<"\n">>)}

\* what `timeout 8 iw dev <if> scan` can give: a failure, or an output
IwResults ==
    {[err |-> TRUE, output |-> <<>>]} \cup {[err |-> FALSE, output |-> o] : o \in IwOutputs}

\* the access point saved with the tag "WEP" in place of the assumed one
SavedAPTaggedWEP(cur) ==
    [BSSID |-> cur.BSSID, PWR |-> cur.PWR, Beacons |-> 0, ENC |-> <<"W", "E", "P">>,
     ESSID |-> cur.SSID]

\* the access point fallbackScanWifi saves from what it has parsed so far;
\* ENC, which the heuristics inspect, is the text "WPA2"
SavedAP(cur) ==
    [BSSID |-> cur.BSSID, PWR |-> cur.PWR, Beacons |-> 0, ENC |-> <<"W", "P", "A", "2">>,
     ESSID |-> cur.SSID]

\* one turn of the parsing loop of fallbackScanWifi on `line`; st holds aps
\* and the current BSSID, SSID and PWR
ParseIwLine(st, rawLine) ==
    LET line == TrimSpace(rawLine)
    IN  IF Contains(line, <<"B", "S", "S", " ">>)
        THEN LET saved == IF st.cur.BSSID # <<>>
                          THEN Append(st.aps, SavedAP(st.cur))
                          ELSE st.aps
                 parts == Fields(line)
             IN  [aps |-> saved,
                  cur |-> IF Len(parts) >= 2
                          THEN [BSSID |-> TrimSpace(parts[2]), SSID |-> <<>>, PWR |-> 0]
                          ELSE st.cur]
        ELSE IF Contains(line, <<"s", "i", "g", "n", "a", "l", ":", " ">>)
        THEN LET parts == Split(line, <<"s", "i", "g", "n", "a", "l", ":", " ">>)
                 signalStr == TrimSuffix(TrimSpace(parts[2]), <<" ", "d", "B", "m">>)
             IN  [st EXCEPT !.cur.PWR = Atoi(signalStr)]
        ELSE IF Contains(line, <<"S", "S", "I", "D", ":", " ">>)
        THEN LET parts == Split(line, <<"S", "S", "I", "D", ":", " ">>)
             IN  [st EXCEPT !.cur.SSID = TrimSpace(parts[2])]
        ELSE st

RECURSIVE ParseIwLines(_, _)
ParseIwLines(st, lines) ==
    IF lines = <<>> THEN st
    ELSE ParseIwLines(ParseIwLine(st, Head(lines)), Tail(lines))

\* the access points fallbackScanWifi builds from the scan's output
ParseIwScan(output) ==
    LET start == [aps |-> <<>>, cur |-> [BSSID |-> <<>>, SSID |-> <<>>, PWR |-> 0]]
        end == ParseIwLines(start, Split(output, <<"\n">>))
    IN  IF end.cur.BSSID # <<>> THEN Append(end.aps, SavedAP(end.cur)) ELSE end.aps

\* what the Wi-Fi actions leave alone
WifiFrame == <<tskVars, logVars, blkVars, BtDevices, BleDevices, fnCall, seen>>

\* MonitorWifi, first StatusMu section: the record is created when missing
MonitorWifi_Init ==
    /\ pc.wifi = "idle"
    /\ passes.wifi < MaxWifiPasses
    /\ passes' = [passes EXCEPT !.wifi = @ + 1]
    /\ ServiceStatuses' = EnsureStatus(ServiceStatuses, "wifi", "WiFi Monitoring")
    /\ Goto("wifi", "tools")
    /\ UNCHANGED <<scanCall, WifiFrame, loc, logged, WifiAPs, WifiClients>>

\* exec.LookPath("airodump-ng") fails: the pass ends in error
MonitorWifi_NoAirodump ==
    /\ pc.wifi = "tools"
    /\ SetStatus("wifi", "error", "airodump-ng not installed",
                 Append(ServiceStatuses["wifi"].LogEntries, NextEvent("wifi")))
    /\ Goto("wifi", "idle")
    /\ scanCall' = ScanCall("wifi", <<"airodump-ng">>, TRUE, <<>>)
    /\ UNCHANGED <<WifiFrame, loc, passes, WifiAPs, WifiClients>>

\* airodump-ng is there, getOrCreateMonitorInterface fails: the error is
\* recorded and the fallback scan is tried
MonitorWifi_MonitorError(host) ==
    /\ pc.wifi = "tools"
    /\ getOrCreateMonitorInterface(host).err # ""
    /\ SetStatus("wifi", "error",
                 IF getOrCreateMonitorInterface(host).err = "no WiFi interfaces found"
                 THEN "Error setting up monitor interface: no WiFi interfaces found"
                 ELSE "Error setting up monitor interface: failed to set monitor mode",
                 Append(ServiceStatuses["wifi"].LogEntries, NextEvent("wifi")))
    /\ Goto("wifi", "fallback")
    /\ scanCall' = ScanCall("wifi", <<"airodump-ng", "getOrCreateMonitorInterface">>, TRUE, <<>>)
    /\ loc' = [loc EXCEPT !.wifi.err = getOrCreateMonitorInterface(host).err]
    /\ UNCHANGED <<WifiFrame, passes, WifiAPs, WifiClients>>

\* airodump-ng is there and a monitor interface was found or made
MonitorWifi_Using(host) ==
    /\ pc.wifi = "tools"
    /\ getOrCreateMonitorInterface(host).err = ""
    /\ SetStatus("wifi", "running", "",
                 Append(ServiceStatuses["wifi"].LogEntries, NextEvent("wifi")))
    /\ Goto("wifi", "fallback")
    /\ scanCall' = ScanCall("wifi", <<"airodump-ng", "getOrCreateMonitorInterface">>, FALSE, <<>>)
    /\ loc' = [loc EXCEPT !.wifi.err = getOrCreateMonitorInterface(host).err]
    /\ UNCHANGED <<WifiFrame, passes, WifiAPs, WifiClients>>

\* fallbackScanWifi: getWifiInterfaces fails or finds nothing
fallbackScanWifi_NoInterfaces(wireless) ==
    /\ pc.wifi = "fallback"
    /\ wireless.err \/ Len(wireless.interfaces) = 0
    /\ SetStatus("wifi", "error", "No wireless interfaces found",
                 ServiceStatuses["wifi"].LogEntries)
    /\ Goto("wifi", "idle")
    /\ scanCall' = ScanCall("wifi", <<"getWifiInterfaces">>, TRUE, <<>>)
    /\ UNCHANGED <<WifiFrame, loc, passes, WifiAPs, WifiClients>>

\* fallbackScanWifi: the scan command fails
fallbackScanWifi_ScanFailed(wireless, scan) ==
    /\ pc.wifi = "fallback"
    /\ ~(wireless.err \/ Len(wireless.interfaces) = 0)
    /\ scan.err
    /\ SetStatus("wifi", "error", "iw scan failed",
                 TrimLogEntries(Append(ServiceStatuses["wifi"].LogEntries,
                                       NextEvent("wifi"))))
    /\ Goto("wifi", "idle")
    /\ scanCall' = ScanCall("wifi", <<"getWifiInterfaces", "iw scan">>, TRUE, scan.output)
    /\ UNCHANGED <<WifiFrame, loc, passes, WifiAPs, WifiClients>>

\* fallbackScanWifi: the scan worked; its access points replace the sample
\* in one WifiMu section
fallbackScanWifi_Publish(wireless, scan) ==
    /\ pc.wifi = "fallback"
    /\ ~(wireless.err \/ Len(wireless.interfaces) = 0)
    /\ ~scan.err
    /\ WifiAPs' = ParseIwScan(scan.output)
    /\ WifiClients' = <<>>
    /\ Goto("wifi", "status")
    /\ scanCall' = ScanCall("wifi", <<"getWifiInterfaces", "iw scan">>, FALSE, scan.output)
    /\ UNCHANGED <<WifiFrame, loc, passes, ServiceStatuses, logged>>

\* fallbackScanWifi, last StatusMu section
\* fallbackScanWifi, last StatusMu section, the message left as it was
fallbackScanWifi_StatusKeepsMsg ==
    /\ pc.wifi = "status"
    /\ SetStatus("wifi", "running", ServiceStatuses["wifi"].ErrorMsg,
                 TrimLogEntries(Append(ServiceStatuses["wifi"].LogEntries,
                                       NextEvent("wifi"))))
    /\ Goto("wifi", "idle")
    /\ UNCHANGED <<scanCall, WifiFrame, loc, passes, WifiAPs, WifiClients>>

fallbackScanWifi_Status ==
    /\ pc.wifi = "status"
    /\ SetStatus("wifi", "running", "",
                 TrimLogEntries(Append(ServiceStatuses["wifi"].LogEntries,
                                       NextEvent("wifi"))))
    /\ Goto("wifi", "idle")
    /\ UNCHANGED <<scanCall, WifiFrame, loc, passes, WifiAPs, WifiClients>>

-----------------------------------------------------------------------------
(* The Bluetooth classic sampler: MonitorBluetooth, DetectBluetoothAttacks *)

\* how many passes the Bluetooth sampler makes at most
MaxBtPasses == 2

\* the line hcitool scan prints for a device
HciLine(address, name) == <<"\t">> \o address \o <<"\t">> \o name

\* the line bluetoothctl devices prints for a device
CtlLine(address, name) == <<"D", "e", "v", "i", "c", "e", " ">> \o address \o <<" ">> \o name

\* the outputs of a successful scan that are tried: none, hcitool's with two
\* devices, bluetoothctl's with two devices, and a line that has both shapes
BtOutputs ==
    {<<>>,
     Join(<<<<"S", "c", "a", "n", "n", "i", "n", "g", " ", ".", ".", ".">>,
            HciLine(<<"A", "1">>, <<"P", "h", "o", "n", "e">>),
            HciLine(<<"B", "2">>, <<"E", "v", "i", "l", " ", "H", "u", "b">>),
            <<>>>>, <<"\n">>),
     Join(<<CtlLine(<<"C", "3">>, <<"P", "r", "o", "x", "y">>),
            CtlLine(<<"A", "1">>, <<"P", "h", "o", "n", "e">>)>>, <<"\n">>),
     <<"D", "e", "v", "i", "c", "e", " ">> \o <<"D", "4">> \o <<"\t">> \o <<"P", "a", "d">>}

\* what runCommandOrSudo can give for one tool: a failure, or an output
BtResults ==
    {[err |-> TRUE, output |-> <<>>]} \cup {[err |-> FALSE, output |-> o] : o \in BtOutputs}

\* the host as MonitorBluetooth meets it: what each tool of the cascade gives
BtHosts == [hcitool : BtResults, btmgmt : BtResults, bluetoothctl : BtResults]

\* the cascade hcitool scan, btmgmt find, bluetoothctl devices: each tool is
\* run only when the one before failed; the last result stands
BtScan(host) ==
    IF ~host.hcitool.err THEN host.hcitool
    ELSE IF ~host.btmgmt.err THEN host.btmgmt
    ELSE host.bluetoothctl

\* a tool of a cascade as it was tried: the command and whether it failed
Tried(cmd, result) == [cmd |-> cmd, err |-> result.err]

\* the tools of the cascade that MonitorBluetooth runs on the host, in order
BtTried(host) ==
    <<Tried("hcitool scan", host.hcitool)>>
    \o (IF host.hcitool.err THEN <<Tried("btmgmt find", host.btmgmt)>> ELSE <<>>)
    \o (IF host.hcitool.err /\ host.btmgmt.err
        THEN <<Tried("bluetoothctl devices", host.bluetoothctl)>> ELSE <<>>)

\* the commands that cascade runs on the host, in order
BtRuns(host) ==
    IF ~host.hcitool.err THEN <<"hcitool scan">>
    ELSE IF ~host.btmgmt.err THEN <<"hcitool scan", "btmgmt find">>
    ELSE <<"hcitool scan", "btmgmt find", "bluetoothctl devices">>

\* the devices one line of the output adds to BtDevices, in order
ParseBtLine(line) ==
    LET trimmed == TrimSpace(line)
        parts == Fields(trimmed)
        hci == IF /\ Contains(trimmed, <<"\t">>)
                  /\ ~HasPrefix(trimmed, <<"S", "c", "a", "n", "n", "i", "n", "g">>)
                  /\ Len(parts) >= 2
               THEN <<[Address |-> parts[1],
                       Name |-> Join(SubSeq(parts, 2, Len(parts)), <<" ">>)]>>
               ELSE <<>>
        ctl == IF /\ HasPrefix(trimmed, <<"D", "e", "v", "i", "c", "e", " ">>)
                  /\ Contains(trimmed, <<" ">>)
                  /\ Len(parts) >= 3
               THEN <<[Address |-> parts[2],
                       Name |-> Join(SubSeq(parts, 3, Len(parts)), <<" ">>)]>>
               ELSE <<>>
    IN  hci \o ctl

RECURSIVE ParseBtLines(_)
ParseBtLines(lines) ==
    IF lines = <<>> THEN <<>>
    ELSE ParseBtLine(Head(lines)) \o ParseBtLines(Tail(lines))

\* every device the parsing loop of MonitorBluetooth appends for `output`
ParseBtScan(output) == ParseBtLines(Split(output, <<"\n">>))

suspiciousNames ==
    <<<<"a", "t", "t", "a", "c", "k">>, <<"h", "a", "c", "k">>,
      <<"e", "x", "p", "l", "o", "i", "t">>, <<"t", "e", "s", "t">>,
      <<"s", "p", "o", "o", "f">>, <<"e", "v", "i", "l">>,
      <<"m", "a", "l", "w", "a", "r", "e">>, <<"v", "i", "r", "u", "s">>>>

mitmPatterns ==
    {<<"p", "r", "o", "x", "y">>, <<"g", "a", "t", "e", "w", "a", "y">>,
     <<"b", "r", "i", "d", "g", "e">>, <<"i", "n", "t", "e", "r", "c", "e", "p", "t">>}

\* more devices than this in one sample is reported as mass scanning
MassScanningThreshold == 20

\* the findings one name loop of DetectBluetoothAttacks makes of the devices
\* `hits`, those whose name matched: one finding each, in the devices' order
NameFindings(hits, type) ==
    [i \in 1..Len(hits) |->
        [Type |-> type, Severity |-> "High", Target |-> hits[i].Address]]

\* DetectBluetoothAttacks with the mass-scanning test passing at the threshold
DetectBluetoothAttacksFromThreshold(devices) ==
    LET Spoofed(device) ==
            \E k \in 1..Len(suspiciousNames) :
                Contains(ToLower(device.Name), suspiciousNames[k])
        Relayed(device) ==
            \E pattern \in mitmPatterns : Contains(ToLower(device.Name), pattern)
    IN  (IF Len(devices) >= MassScanningThreshold
         THEN <<[Type |-> "BLUETOOTH_MASS_SCANNING", Severity |-> "Medium",
                 Target |-> <<"b", "l", "u", "e", "t", "o", "o", "t", "h", "_",
                              "n", "e", "t", "w", "o", "r", "k">>]>>
         ELSE <<>>)
        \o NameFindings(SelectSeq(devices, Spoofed), "BLUETOOTH_SPOOFING")
        \o NameFindings(SelectSeq(devices, Relayed), "BLUETOOTH_MITM")

\* DetectBluetoothAttacks matching the names as they are written
DetectBluetoothAttacksAsWritten(devices) ==
    LET Spoofed(device) ==
            \E k \in 1..Len(suspiciousNames) :
                Contains(device.Name, suspiciousNames[k])
        Relayed(device) ==
            \E pattern \in mitmPatterns : Contains(device.Name, pattern)
    IN  (IF Len(devices) > MassScanningThreshold
         THEN <<[Type |-> "BLUETOOTH_MASS_SCANNING", Severity |-> "Medium",
                 Target |-> <<"b", "l", "u", "e", "t", "o", "o", "t", "h", "_",
                              "n", "e", "t", "w", "o", "r", "k">>]>>
         ELSE <<>>)
        \o NameFindings(SelectSeq(devices, Spoofed), "BLUETOOTH_SPOOFING")
        \o NameFindings(SelectSeq(devices, Relayed), "BLUETOOTH_MITM")

\* DetectBluetoothAttacks(devices); Description and Timestamp are left out
DetectBluetoothAttacks(devices) ==
    LET Spoofed(device) ==
            \E k \in 1..Len(suspiciousNames) :
                Contains(ToLower(device.Name), suspiciousNames[k])
        Relayed(device) ==
            \E pattern \in mitmPatterns : Contains(ToLower(device.Name), pattern)
    IN  (IF Len(devices) > MassScanningThreshold
         THEN <<[Type |-> "BLUETOOTH_MASS_SCANNING", Severity |-> "Medium",
                 Target |-> <<"b", "l", "u", "e", "t", "o", "o", "t", "h", "_",
                              "n", "e", "t", "w", "o", "r", "k">>]>>
         ELSE <<>>)
        \o NameFindings(SelectSeq(devices, Spoofed), "BLUETOOTH_SPOOFING")
        \o NameFindings(SelectSeq(devices, Relayed), "BLUETOOTH_MITM")

\* what the Bluetooth actions leave alone
BtFrame == <<tskVars, blkVars, WifiAPs, WifiClients, BleDevices, fnCall>>

\* MonitorBluetooth, first StatusMu section: the record is created when missing
MonitorBluetooth_Init ==
    /\ pc.bluetooth = "idle"
    /\ passes.bluetooth < MaxBtPasses
    /\ passes' = [passes EXCEPT !.bluetooth = @ + 1]
    /\ ServiceStatuses' =
          EnsureStatus(ServiceStatuses, "bluetooth", "Bluetooth Monitoring")
    /\ Goto("bluetooth", "scan")
    /\ UNCHANGED <<scanCall, BtFrame, logVars, logged, BtDevices, loc, seen>>

\* every tool of the cascade failed: the error is recorded and the pass goes
\* on to the heuristics
MonitorBluetooth_ScanFailedGoesOn(host) ==
    /\ pc.bluetooth = "scan"
    /\ BtScan(host).err
    /\ SetStatus("bluetooth", "error", "All Bluetooth scanning methods failed",
                 TrimLogEntries(Append(ServiceStatuses["bluetooth"].LogEntries,
                                       NextEvent("bluetooth"))))
    /\ Goto("bluetooth", "detect")
    /\ scanCall' = CascadeCall("bluetooth", BtRuns(host), BtTried(host), BtScan(host))
    /\ UNCHANGED <<BtFrame, logVars, passes, BtDevices, loc, seen>>

\* every tool of the cascade failed: the pass ends in error
MonitorBluetooth_ScanFailed(host) ==
    /\ pc.bluetooth = "scan"
    /\ BtScan(host).err
    /\ SetStatus("bluetooth", "error", "All Bluetooth scanning methods failed",
                 TrimLogEntries(Append(ServiceStatuses["bluetooth"].LogEntries,
                                       NextEvent("bluetooth"))))
    /\ Goto("bluetooth", "idle")
    /\ scanCall' = CascadeCall("bluetooth", BtRuns(host), BtTried(host), BtScan(host))
    /\ UNCHANGED <<BtFrame, logVars, passes, BtDevices, loc, seen>>

\* a tool worked: BtDevices is emptied in a BtMu section of its own. The task
\* keeps the devices it will append; `previous` and `parsed` are history: the
\* sample before this pass and the sample this pass is publishing.
MonitorBluetooth_Clear(host) ==
    /\ pc.bluetooth = "scan"
    /\ ~BtScan(host).err
    /\ BtDevices' = <<>>
    /\ loc' = [loc EXCEPT !.bluetooth =
                  [pending |-> ParseBtScan(BtScan(host).output),
                   parsed |-> ParseBtScan(BtScan(host).output),
                   previous |-> BtDevices,
                   attacks |-> <<>>]]
    /\ Goto("bluetooth", "append")
    /\ scanCall' = CascadeCall("bluetooth", BtRuns(host), BtTried(host), BtScan(host))
    /\ UNCHANGED <<BtFrame, logVars, passes, ServiceStatuses, logged, seen>>

\* the parsing loop: each device is appended in a BtMu section of its own
MonitorBluetooth_Append ==
    /\ pc.bluetooth = "append"
    /\ loc.bluetooth.pending # <<>>
    /\ BtDevices' = Append(BtDevices, Head(loc.bluetooth.pending))
    /\ loc' = [loc EXCEPT !.bluetooth.pending = Tail(@)]
    /\ UNCHANGED <<scanCall, BtFrame, logVars, passes, ServiceStatuses, logged, pc, seen>>

\* after the loop: the StatusMu section that records the pass
MonitorBluetooth_Status ==
    /\ pc.bluetooth = "append"
    /\ loc.bluetooth.pending = <<>>
    /\ SetStatus("bluetooth", "running", "",
                 TrimLogEntries(Append(ServiceStatuses["bluetooth"].LogEntries,
                                       NextEvent("bluetooth"))))
    /\ Goto("bluetooth", "detect")
    /\ UNCHANGED <<scanCall, BtFrame, logVars, passes, BtDevices, loc, seen>>

\* DetectBluetoothAttacks(BtDevices) under BtMu.RLock
MonitorBluetooth_Detect ==
    /\ pc.bluetooth = "detect"
    /\ loc' = [loc EXCEPT !.bluetooth.attacks = DetectBluetoothAttacks(BtDevices)]
    /\ Goto("bluetooth", "add")
    /\ UNCHANGED <<scanCall, BtFrame, logVars, passes, ServiceStatuses, logged, BtDevices, seen>>

\* the closing loop: AddAttack on each finding, in order
MonitorBluetooth_AddAttack ==
    /\ pc.bluetooth = "add"
    /\ loc.bluetooth.attacks # <<>>
    /\ AddAttack(Head(loc.bluetooth.attacks))
    /\ loc' = [loc EXCEPT !.bluetooth.attacks = Tail(@)]
    /\ UNCHANGED <<scanCall, BtFrame, passes, ServiceStatuses, logged, BtDevices, pc, seen>>

\* the pass returns
MonitorBluetooth_Return ==
    /\ pc.bluetooth = "add"
    /\ loc.bluetooth.attacks = <<>>
    /\ Goto("bluetooth", "idle")
    /\ UNCHANGED <<scanCall, BtFrame, logVars, passes, ServiceStatuses, logged, BtDevices, loc, seen>>

\* The complete sample sets of the Bluetooth domain in the current state:
\* while a pass is replacing the sample, the one before the pass and the one
\* the pass publishes; otherwise the published one.
CompleteBtSamples ==
    IF pc.bluetooth = "append"
    THEN {loc.bluetooth.previous, loc.bluetooth.parsed}
    ELSE {BtDevices}

\* a reader: BtMu.RLock(); read BtDevices; BtMu.RUnlock()
ReadBtDevices ==
    /\ seen' = [domain |-> "bluetooth", sample |-> BtDevices,
                complete |-> CompleteBtSamples]
    /\ UNCHANGED <<scanCall, BtFrame, logVars, passes, ServiceStatuses, logged, BtDevices, pc, loc>>

-----------------------------------------------------------------------------
(* The BLE sampler: MonitorAirTag                                          *)

\* how many passes the BLE sampler makes at most
MaxBlePasses == 2

\* the text of the error of a command that `timeout` stopped
ExitStatus124 == <<"e", "x", "i", "t", " ", "s", "t", "a", "t", "u", "s", " ", "1", "2", "4">>

\* the outputs of a scan tool that are tried: none; a header and two lines
\* whose first word ends with a colon, one of an Apple device; a line as
\* hcitool lescan prints it (address, name); a line naming a device
\* "exit status 124"
BleOutputs ==
    {<<>>,
     Join(<<<<"L", "E", " ", "S", "c", "a", "n", " ", ".", ".", ".">>,
            <<"A", "1", ":", " ", "A", "p", "p", "l", "e", " ", "T", "a", "g">>,
            <<"B", "2", ":", " ", "B", "a", "n", "d">>, <<>>>>, <<"\n">>),
     <<"C", "3", ":", "D", "4", " ", "W", "a", "t", "c", "h">>,
     <<"E", "5", ":", " ">> \o ExitStatus124}

\* the exit code `timeout` gives a command it stopped
TimeoutCode == 124

\* what runCommandOrSudo can give for one tool: the exit code of the command
\* (0, TimeoutCode, or 1 for every other failure), the error, which is nil
\* exactly when the code is 0, and the combined output
BleResults ==
    {r \in [code : {0, 1, TimeoutCode}, err : BOOLEAN, output : BleOutputs] :
        r.err = (r.code # 0)}

\* the host as MonitorAirTag meets it: what each command of the cascade gives
BleHosts == [lescan : BleResults, scanOn : BleResults, btmgmt : BleResults, scan : BleResults]

\* the cascade hcitool lescan, bluetoothctl scan on (and scan off after a
\* success), btmgmt find, hcitool scan: the result that stands
BleScan(host) ==
    IF ~host.lescan.err THEN host.lescan
    ELSE IF ~host.scanOn.err THEN host.scanOn
    ELSE IF ~host.btmgmt.err THEN host.btmgmt
    ELSE host.scan

\* the tools of the cascade that MonitorAirTag runs on the host, in order,
\* going on after a success
BleTriedGoesOn(host) ==
    <<Tried("hcitool lescan", host.lescan)>>
    \o (IF host.lescan.err THEN <<Tried("bluetoothctl scan on", host.scanOn)>> ELSE <<>>)
    \o (IF host.lescan.err /\ host.scanOn.err
        THEN <<Tried("btmgmt find", host.btmgmt)>> ELSE <<>>)
    \o (IF host.lescan.err /\ host.scanOn.err
        THEN <<Tried("hcitool scan", host.scan)>> ELSE <<>>)

\* the tools of the cascade that MonitorAirTag runs on the host, in order
BleTried(host) ==
    <<Tried("hcitool lescan", host.lescan)>>
    \o (IF host.lescan.err THEN <<Tried("bluetoothctl scan on", host.scanOn)>> ELSE <<>>)
    \o (IF host.lescan.err /\ host.scanOn.err
        THEN <<Tried("btmgmt find", host.btmgmt)>> ELSE <<>>)
    \o (IF host.lescan.err /\ host.scanOn.err /\ host.btmgmt.err
        THEN <<Tried("hcitool scan", host.scan)>> ELSE <<>>)

\* the commands that cascade runs on the host, in order
BleRuns(host) ==
    IF ~host.lescan.err THEN <<"hcitool lescan">>
    ELSE IF ~host.scanOn.err
    THEN <<"hcitool lescan", "bluetoothctl scan on", "bluetoothctl scan off">>
    ELSE IF ~host.btmgmt.err
    THEN <<"hcitool lescan", "bluetoothctl scan on", "btmgmt find">>
    ELSE <<"hcitool lescan", "bluetoothctl scan on", "btmgmt find", "hcitool scan">>

\* the test MonitorAirTag makes of the cascade's result: an error, unless the
\* output holds the text "exit status 124"
BleScanRejected(result) == result.err /\ ~Contains(result.output, ExitStatus124)

\* the devices one line of the output adds to BleDevices (one at most)
ParseBleLine(line) ==
    LET trimmed == TrimSpace(line)
        parts == Split(trimmed, <<" ">>)
        data == Join(SubSeq(parts, 2, Len(parts)), <<" ">>)
    IN  IF /\ Contains(trimmed, <<":">>)
           /\ ~HasPrefix(trimmed, <<"L", "E", " ", "S", "c", "a", "n">>)
           /\ trimmed # <<>>
           /\ Len(parts) >= 2
           /\ Contains(parts[1], <<":">>)
           /\ HasSuffix(parts[1], <<":">>)
        THEN <<[Address |-> parts[1],
                Data |-> IF Contains(data, <<"A", "p", "p", "l", "e">>) \/ Contains(data, <<"0", "0", "4", "C">>)
                         THEN data \o <<" ", "(", "P", "o", "t", "e", "n", "t", "i", "a", "l", " ", "A", "i", "r", "T", "a", "g", ")">>
                         ELSE data,
                RSSI |-> 0]>>
        ELSE <<>>

RECURSIVE ParseBleLines(_)
ParseBleLines(lines) ==
    IF lines = <<>> THEN <<>>
    ELSE ParseBleLine(Head(lines)) \o ParseBleLines(Tail(lines))

\* every device the parsing loop of MonitorAirTag appends for `output`
ParseBleScan(output) == ParseBleLines(Split(output, <<"\n">>))

\* what the BLE actions leave alone
BleFrame == <<tskVars, logVars, blkVars, WifiAPs, WifiClients, BtDevices, fnCall, seen>>

\* MonitorAirTag, first StatusMu section: the record is created when missing
MonitorAirTag_Init ==
    /\ pc.airtag = "idle"
    /\ passes.airtag < MaxBlePasses
    /\ passes' = [passes EXCEPT !.airtag = @ + 1]
    /\ ServiceStatuses' =
          EnsureStatus(ServiceStatuses, "airtag", "AirTag/BLE Monitoring")
    /\ Goto("airtag", "scan")
    /\ UNCHANGED <<BleFrame, scanCall, logged, BleDevices, loc>>

\* the cascade's result is rejected: the pass ends in error
MonitorAirTag_ScanFailed(host) ==
    /\ pc.airtag = "scan"
    /\ BleScanRejected(BleScan(host))
    /\ scanCall' = CascadeCall("airtag", BleRuns(host), BleTried(host), BleScan(host))
    /\ SetStatus("airtag", "error", "All BLE scanning methods failed",
                 TrimLogEntries(Append(ServiceStatuses["airtag"].LogEntries,
                                       NextEvent("airtag"))))
    /\ Goto("airtag", "idle")
    /\ UNCHANGED <<BleFrame, passes, BleDevices, loc>>

\* the cascade's result is taken: BleDevices is emptied in a BleMu section of
\* its own. The task keeps the devices it will append; `previous` and
\* `parsed` are history.
MonitorAirTag_Clear(host) ==
    /\ pc.airtag = "scan"
    /\ ~BleScanRejected(BleScan(host))
    /\ scanCall' = CascadeCall("airtag", BleRuns(host), BleTried(host), BleScan(host))
    /\ BleDevices' = <<>>
    /\ loc' = [loc EXCEPT !.airtag =
                  [pending |-> ParseBleScan(BleScan(host).output),
                   parsed |-> ParseBleScan(BleScan(host).output),
                   previous |-> BleDevices]]
    /\ Goto("airtag", "append")
    /\ UNCHANGED <<BleFrame, passes, ServiceStatuses, logged>>

\* the parsing loop: each device is appended in a BleMu section of its own
MonitorAirTag_Append ==
    /\ pc.airtag = "append"
    /\ loc.airtag.pending # <<>>
    /\ BleDevices' = Append(BleDevices, Head(loc.airtag.pending))
    /\ loc' = [loc EXCEPT !.airtag.pending = Tail(@)]
    /\ UNCHANGED <<BleFrame, scanCall, passes, ServiceStatuses, logged, pc>>

\* after the loop: the StatusMu section that records the pass, which returns
MonitorAirTag_Status ==
    /\ pc.airtag = "append"
    /\ loc.airtag.pending = <<>>
    /\ SetStatus("airtag", "running", "",
                 TrimLogEntries(Append(ServiceStatuses["airtag"].LogEntries,
                                       NextEvent("airtag"))))
    /\ Goto("airtag", "idle")
    /\ UNCHANGED <<BleFrame, scanCall, passes, BleDevices, loc>>

-----------------------------------------------------------------------------
(* The Wi-Fi heuristics: DetectWiFiAttacks                                 *)

\* the longest list of access points DetectWiFiAttacks is tried on
MaxAPs == 3

\* a WifiAP as the heuristics read it: ESSID and ENC are inspected, so both
\* are character sequences here; PWR and Beacons are never read
AP(bssid, essid, enc) == [BSSID |-> bssid, ESSID |-> essid, ENC |-> enc]

\* the access points tried
APs ==
    {AP("a1", <<"H", "o", "m", "e">>, <<"W", "P", "A", "2">>),
     AP("b2", <<"H", "o", "m", "e">>, <<"W", "E", "P">>),
     AP("c3", <<"H", "i", "d", "d", "e", "n">>, <<"W", "P", "A", "2">>),
     AP("d4", <<"H", "i", "d", "d", "e", "n">>, <<"w", "e", "p">>),
     AP("e5", <<>>, <<"W", "P", "A", "2">>),
     AP("f6", <<>>, <<"W", "e", "P", "-", "4", "0">>),
     AP("g7", <<"F", "r", "e", "e", " ", "W", "i", "F", "i">>, <<"W", "P", "A", "2">>),
     AP("h8", <<"O", "f", "f", "i", "c", "e">>, <<"W", "P", "A">>)}

\* the lists of access points tried
APLists == UNION {[1..n -> APs] : n \in 0..MaxAPs}

\* ssidCounts after the first loop: for every SSID that is neither empty nor
\* "Hidden", the BSSIDs of its access points, one per list entry, in order
ssidCounts(devices) ==
    LET Named(device) == device.ESSID # <<>> /\ device.ESSID # <<"H", "i", "d", "d", "e", "n">>
        named == SelectSeq(devices, Named)
    IN  [ssid \in {named[i].ESSID : i \in 1..Len(named)} |->
            LET Same(device) == device.ESSID = ssid
                same == SelectSeq(named, Same)
            IN  [i \in 1..Len(same) |-> same[i].BSSID]]

\* the orders in which `for ssid, bssids := range ssidCounts` can visit the
\* keys: Go leaves the order of a map's keys open
RangeOrders(counts) ==
    {order \in [1..Cardinality(DOMAIN counts) -> DOMAIN counts] :
        \A i, j \in DOMAIN order : i # j => order[i] # order[j]}

\* the second loop: one EVIL_TWIN finding for every key with len(bssids) > 1
EvilTwinFindings(counts, order) ==
    LET Repeated(ssid) == Len(counts[ssid]) > 1
        repeated == SelectSeq(order, Repeated)
    IN  [i \in 1..Len(repeated) |->
            [Type |-> "EVIL_TWIN", Severity |-> "High", Target |-> repeated[i]]]

roguePatterns ==
    <<<<"f", "r", "e", "e">>, <<"p", "u", "b", "l", "i", "c">>, <<"h", "a", "c", "k">>, <<"t", "e", "s", "t">>,
      <<"e", "v", "i", "l">>, <<"w", "i", "f", "i">>, <<"g", "u", "e", "s", "t">>, <<"d", "e", "f", "a", "u", "l", "t">>>>

\* the findings the inner loop over roguePatterns adds for one access point,
\* without its break: one for every pattern the SSID holds
RogueFindingsOfNoBreak(device) ==
    LET ssidLower == ToLower(device.ESSID)
        Matches(pattern) == Contains(ssidLower, pattern)
        matching == SelectSeq(roguePatterns, Matches)
    IN  [i \in 1..Len(matching) |->
            [Type |-> "ROGUE_AP", Severity |-> "High", Target |-> device.ESSID]]

\* the findings the inner loop over roguePatterns adds for one access point:
\* it appends at the first pattern the lowered SSID holds, and breaks
RogueFindingsOf(device) ==
    LET ssidLower == ToLower(device.ESSID)
        Matches(pattern) == Contains(ssidLower, pattern)
        matching == SelectSeq(roguePatterns, Matches)
    IN  IF matching # <<>>
        THEN <<[Type |-> "ROGUE_AP", Severity |-> "High", Target |-> device.ESSID]>>
        ELSE <<>>

\* the test of the weak-encryption loop with the tag taken as it is
WeakEncryptionAsWritten(device) ==
    Contains(device.ENC, <<"w", "e", "p">>)

\* the test of the weak-encryption loop
WeakEncryption(device) ==
    Contains(ToLower(device.ENC), <<"w", "e", "p">>)

RECURSIVE RogueFindings(_)
RogueFindings(devices) ==
    IF devices = <<>> THEN <<>>
    ELSE RogueFindingsOf(Head(devices)) \o RogueFindings(Tail(devices))

\* the third loop: one WEAK_ENCRYPTION finding for every access point that
\* passes the test, in the list's order
WeakEncryptionFindings(devices) ==
    LET weak == SelectSeq(devices, WeakEncryption)
    IN  [i \in 1..Len(weak) |->
            [Type |-> "WEAK_ENCRYPTION", Severity |-> "High", Target |-> weak[i].ESSID]]

\* DetectWiFiAttacks(devices) when the range over ssidCounts visits the keys
\* in `order`; Description and Timestamp are left out
DetectWiFiAttacks(devices, order) ==
    EvilTwinFindings(ssidCounts(devices), order)
    \o RogueFindings(devices)
    \o WeakEncryptionFindings(devices)

\* a call of DetectWiFiAttacks; the function keeps nothing from one call to
\* the next, so one call is followed per behaviour
DetectWiFiAttacksCall(devices, order) ==
    /\ fnCall.fn = "none"
    /\ fnCall' = [fn |-> "DetectWiFiAttacks", devices |-> devices,
                  ret |-> DetectWiFiAttacks(devices, order)]
    /\ UNCHANGED <<logVars, blkVars, ServiceStatuses, logged, WifiAPs, WifiClients,
                   BtDevices, BleDevices, scanCall, pc, loc, passes, seen, tskVars>>

-----------------------------------------------------------------------------
(* The Bluetooth heuristics on samples of any size                         *)

\* the most devices of one kind a sample tried starts with
MaxBtFill == 21

BtDevice(address, name) == [Address |-> address, Name |-> name]

\* the devices the samples tried are made of
BtKinds ==
    {BtDevice(<<"A", "1">>, <<"P", "h", "o", "n", "e">>),
     BtDevice(<<"B", "2">>, <<"E", "v", "i", "l", " ", "H", "u", "b">>),
     BtDevice(<<"C", "3">>, <<"P", "r", "o", "x", "y">>),
     BtDevice(<<"D", "4">>, <<"T", "E", "S", "T", " ", "G", "a", "t", "e", "w", "a", "y", "-", "B", "r", "i", "d", "g", "e", " ", "H", "a", "c", "k">>)}

\* the samples tried: up to MaxBtFill devices of one kind, then none or one
\* device of any kind
BtSamples ==
    {[i \in 1..n |-> kind] \o rest :
        n \in 0..MaxBtFill, kind \in BtKinds,
        rest \in {<<>>} \cup {<<last>> : last \in BtKinds}}

\* a call of DetectBluetoothAttacks that puts its first finding in the log
DetectBluetoothAttacksCallLogging(devices) ==
    /\ fnCall.fn = "none"
    /\ fnCall' = [fn |-> "DetectBluetoothAttacks", devices |-> devices,
                  ret |-> DetectBluetoothAttacks(devices)]
    /\ IF DetectBluetoothAttacks(devices) # <<>>
       THEN AddAttack(Head(DetectBluetoothAttacks(devices)))
       ELSE UNCHANGED logVars
    /\ UNCHANGED <<blkVars, ServiceStatuses, logged, WifiAPs, WifiClients,
                   BtDevices, BleDevices, scanCall, pc, loc, passes, seen, tskVars>>

\* a call of DetectBluetoothAttacks; the function keeps nothing from one call
\* to the next, so one call is followed per behaviour
DetectBluetoothAttacksCall(devices) ==
    /\ fnCall.fn = "none"
    /\ fnCall' = [fn |-> "DetectBluetoothAttacks", devices |-> devices,
                  ret |-> DetectBluetoothAttacks(devices)]
    /\ UNCHANGED <<logVars, blkVars, ServiceStatuses, logged, WifiAPs, WifiClients,
                   BtDevices, BleDevices, scanCall, pc, loc, passes, seen, tskVars>>

SmpInit ==
    /\ ServiceStatuses = NoStatuses
    /\ logged = [d \in {"wifi", "bluetooth", "airtag"} |-> 0]
    /\ WifiAPs = <<>>
    /\ WifiClients = <<>>
    /\ BtDevices = <<>>
    /\ BleDevices = <<>>
    /\ scanCall = ScanCall("none", <<>>, FALSE, <<>>)
    /\ fnCall = [fn |-> "none"]
    /\ pc = [wifi |-> "idle", bluetooth |-> "idle", airtag |-> "idle"]
    /\ loc = [wifi |-> [err |-> ""],
              bluetooth |-> [pending |-> <<>>, parsed |-> <<>>, previous |-> <<>>,
                             attacks |-> <<>>],
              airtag |-> [pending |-> <<>>, parsed |-> <<>>, previous |-> <<>>]]
    /\ passes = [wifi |-> 0, bluetooth |-> 0, airtag |-> 0]
    /\ seen = [domain |-> "none", sample |-> <<>>, complete |-> {<<>>}]

-----------------------------------------------------------------------------
(* Locks (sync.RWMutex) and the tasks that call concurrently               *)

\* the locks: the Blocker's b.mu and the package's seven
Locks == {"b.mu", "WifiMu", "BtMu", "BleMu", "RadioMu", "NetMu", "StatusMu", "AttackMu"}

Tasks == {"t1", "t2"}

\* a lock nobody holds
NoHolder == [writer |-> "none", readers |-> {}]

\* Lock() returns at once whoever holds the lock
CanLockAlways(m) == TRUE

\* Lock() returns although a writer holds the lock
CanLockFree(m) == m.readers = {}

\* Lock() returns when no writer and no reader holds the lock
CanLock(m) == m.writer = "none" /\ m.readers = {}

\* RLock() returns when no writer holds the lock
CanRLock(m) == m.writer = "none"

Lock(name, t) ==
    /\ CanLock(mu[name])
    /\ mu' = [mu EXCEPT ![name].writer = t]

Unlock(name, t) == mu' = [mu EXCEPT ![name].writer = "none"]

RLock(name, t) ==
    /\ CanRLock(mu[name])
    /\ mu' = [mu EXCEPT ![name].readers = @ \cup {t}]

RUnlock(name, t) == mu' = [mu EXCEPT ![name].readers = @ \ {t}]

\* t holds the lock exclusively; t holds it, shared or exclusively
HoldsLock(name, t) == mu[name].writer = t
HoldsRLock(name, t) == mu[name].writer = t \/ t \in mu[name].readers

\* a task that has not called yet
IdleTask == [op |-> "none", pc |-> "idle"]

TskInit ==
    /\ mu = [name \in Locks |-> NoHolder]
    /\ tasks = [t \in Tasks |-> IdleTask]

-----------------------------------------------------------------------------
vars == <<Attacks, appended, logCall, blockedIPs, blockedMACs, blockedBTAddrs,
          autoBlock, clock, blkCall, items, copies, ServiceStatuses, logged,
          WifiAPs, WifiClients, BtDevices, BleDevices, scanCall, fnCall, pc, loc,
          passes, seen, mu, tasks>>

Init == LogInit /\ BlkInit /\ SmpInit /\ TskInit

-----------------------------------------------------------------------------
(* The findings log, called by one task                                    *)

LogNext == LogAppend \/ LogRecent

\* the Blocker stays as constructed (auto-block off)
LogSpecInit == Init /\ autoBlock = FALSE

SpecLog == LogSpecInit /\ [][LogNext]_vars

\* C1: after any sequence of AddAttack calls the log holds at most 1000
\* findings and is exactly the last min(n, 1000) of the n findings appended,
\* in arrival order; after 1001 appends it is findings 2..1001 (only the oldest
\* was evicted).
C1_LogIsLastThousand ==
    /\ Len(Attacks) <= MaxAttacks
    /\ Len(Attacks) = Min(appended, MaxAttacks)
    /\ \A i \in 1..Len(Attacks) :
          Attacks[i] = NthFinding(appended - Len(Attacks) + i)
    /\ appended = MaxAttacks + 1 =>
          /\ Attacks[1] = NthFinding(2)
          /\ Attacks[MaxAttacks] = NthFinding(MaxAttacks + 1)

\* the 1001st finding has been appended and the first one is gone
C1_Witness ==
    /\ appended = MaxAttacks + 1
    /\ Len(Attacks) = MaxAttacks
    /\ Attacks[1].Timestamp = 2

\* C2: GetRecentAttacks(limit) returns the last `limit` findings of the log,
\* oldest first, when 0 < limit <= length, the whole log when limit <= 0 or
\* limit > length, and leaves the log as it was.
C2_RecentIsTail ==
    [][logCall'.op = "GetRecentAttacks" =>
          LET limit == logCall'.limit
              out == logCall'.out
              n == Len(Attacks)
          IN  /\ Attacks' = Attacks
              /\ (0 < limit /\ limit <= n) =>
                    /\ Len(out) = limit
                    /\ \A i \in 1..limit : out[i] = Attacks[n - limit + i]
              /\ (limit <= 0 \/ limit > n) => out = Attacks]_vars

\* a call with 1 < limit < length that returned `limit` findings, on a log that
\* has already evicted
C2_Witness ==
    /\ logCall.op = "GetRecentAttacks"
    /\ logCall.limit > 1
    /\ logCall.limit < Len(Attacks)
    /\ Len(logCall.out) = logCall.limit
    /\ appended > MaxAttacks

-----------------------------------------------------------------------------
(* The Blocker, called by one task on any host                             *)

BlkIP ==
    /\ \E a \in Addrs, env \in IPEnvs : BlockIP(a, env) \/ UnblockIP(a, env)
    /\ UNCHANGED <<logVars, smpVars>>
BlkMAC ==
    /\ \E a \in Addrs, env \in MACEnvs : BlockMAC(a, env) \/ UnblockMAC(a, env)
    /\ UNCHANGED <<logVars, smpVars>>
BlkBT ==
    /\ \E a \in Addrs, env \in BTEnvs :
          BlockBluetoothDevice(a, env) \/ UnblockBluetoothDevice(a, env)
    /\ UNCHANGED <<logVars, smpVars>>
BlkAuto ==
    /\ \E attack \in Findings : \E env \in EnvsFor(attack.Type) :
          AutoBlockAttack(attack, env)
    /\ UNCHANGED <<logVars, smpVars>>
BlkSet ==
    /\ \E e \in BOOLEAN : SetAutoBlock(e)
    /\ UNCHANGED <<logVars, smpVars>>

BlockerNext == BlkIP \/ BlkMAC \/ BlkBT \/ BlkAuto \/ BlkSet

SpecBlocker == Init /\ [][BlockerNext]_vars

BlockedMaps == <<blockedIPs, blockedMACs, blockedBTAddrs>>

\* C5: a block call on an address already in its category's map returns an
\* error and leaves the address in the map with the time it had; an unblock
\* call on an address that is not in the map returns an error and leaves the
\* three maps as they were; neither runs a tool.
C5_ConflictFailsUnchanged ==
    [][LET c == blkCall'
       IN  /\ (c.op = "BlockIP" /\ Has(blockedIPs, c.target)) =>
                 /\ c.err # "none" /\ c.runs = <<>>
                 /\ Has(blockedIPs', c.target)
                 /\ blockedIPs'[c.target] = blockedIPs[c.target]
           /\ (c.op = "BlockMAC" /\ Has(blockedMACs, c.target)) =>
                 /\ c.err # "none" /\ c.runs = <<>>
                 /\ Has(blockedMACs', c.target)
                 /\ blockedMACs'[c.target] = blockedMACs[c.target]
           /\ (c.op = "BlockBluetoothDevice" /\ Has(blockedBTAddrs, c.target)) =>
                 /\ c.err # "none" /\ c.runs = <<>>
                 /\ Has(blockedBTAddrs', c.target)
                 /\ blockedBTAddrs'[c.target] = blockedBTAddrs[c.target]
           /\ (c.op = "UnblockIP" /\ ~Has(blockedIPs, c.target)) =>
                 c.err # "none" /\ c.runs = <<>> /\ BlockedMaps' = BlockedMaps
           /\ (c.op = "UnblockMAC" /\ ~Has(blockedMACs, c.target)) =>
                 c.err # "none" /\ c.runs = <<>> /\ BlockedMaps' = BlockedMaps
           /\ (c.op = "UnblockBluetoothDevice" /\ ~Has(blockedBTAddrs, c.target)) =>
                 c.err # "none" /\ c.runs = <<>> /\ BlockedMaps' = BlockedMaps
      ]_vars

\* BlockIP was called on a blocked address while the clock could still advance
C5_Witness ==
    /\ blkCall.op = "BlockIP"
    /\ blkCall.err = "conflict"
    /\ Has(blockedIPs, blkCall.target)
    /\ blockedIPs[blkCall.target] = 1
    /\ clock = 1

MutationOps ==
    {"BlockIP", "UnblockIP", "BlockMAC", "UnblockMAC", "BlockBluetoothDevice",
     "UnblockBluetoothDevice", "AutoBlockAttack"}

\* the call c was a successful block of address a in the map of `blockOp`
BlockedBy(c, blockOp, a, autoTypes, m) ==
    /\ c.err = "none"
    /\ c.target = a
    /\ \/ c.op = blockOp
       \/ c.op = "AutoBlockAttack" /\ c.type \in autoTypes
    /\ m[a] = clock + 1

\* C6: a Blocker mutation that returns an error leaves the three maps as they
\* were; an address enters a map only by a block call (direct, or made by
\* AutoBlockAttack) that returns success, and leaves it only by an unblock call
\* that returns success.
C6_ErrorLeavesMaps ==
    [][LET c == blkCall'
       IN  /\ (c.op \in MutationOps /\ c.err # "none") => BlockedMaps' = BlockedMaps
           /\ \A a \in Addrs :
                 /\ (~Has(blockedIPs, a) /\ Has(blockedIPs', a)) =>
                       BlockedBy(c, "BlockIP", a, IPAttackTypes, blockedIPs')
                 /\ (~Has(blockedMACs, a) /\ Has(blockedMACs', a)) =>
                       BlockedBy(c, "BlockMAC", a, {}, blockedMACs')
                 /\ (~Has(blockedBTAddrs, a) /\ Has(blockedBTAddrs', a)) =>
                       BlockedBy(c, "BlockBluetoothDevice", a, BTAttackTypes,
                                 blockedBTAddrs')
                 /\ (Has(blockedIPs, a) /\ ~Has(blockedIPs', a)) =>
                       c.op = "UnblockIP" /\ c.target = a /\ c.err = "none"
                 /\ (Has(blockedMACs, a) /\ ~Has(blockedMACs', a)) =>
                       c.op = "UnblockMAC" /\ c.target = a /\ c.err = "none"
                 /\ (Has(blockedBTAddrs, a) /\ ~Has(blockedBTAddrs', a)) =>
                       c.op = "UnblockBluetoothDevice" /\ c.target = a /\ c.err = "none"
      ]_vars

\* a block whose tool failed, called while another address is blocked
C6_Witness ==
    /\ blkCall.op = "BlockIP"
    /\ blkCall.err = "tool_failed"
    /\ blkCall.runs # <<>>
    /\ ~Has(blockedIPs, blkCall.target)
    /\ blockedIPs # EmptyMap

\* C7: with auto-block disabled, AutoBlockAttack changes none of the three
\* maps, runs no tool and returns no error, whatever the finding.
C7_AutoBlockOffNoOp ==
    [][(blkCall'.op = "AutoBlockAttack" /\ ~autoBlock) =>
          /\ BlockedMaps' = BlockedMaps
          /\ blkCall'.runs = <<>>
          /\ blkCall'.lookups = <<>>
          /\ blkCall'.err = "none"]_vars

\* auto-block is off and the finding is one that would have been blocked
C7_Witness ==
    /\ blkCall.op = "AutoBlockAttack"
    /\ ~blkCall.enabled
    /\ blkCall.type = "UNKNOWN_DEVICE"
    /\ Contains(blkCall.target, <<".">>)
    /\ ~Has(blockedIPs, blkCall.target)

\* C8: with auto-block enabled and the tool found and every command of it
\* succeeding, AutoBlockAttack on an UNKNOWN_DEVICE, SUSPICIOUS_PORT or
\* AI_CONNECTION_ANOMALY finding whose target contains "." and is not blocked
\* adds the target to the blocked IPs and changes no other map; on a
\* BLUETOOTH_SPOOFING or BLUETOOTH_MITM finding with no failed command the
\* target is in the blocked Bluetooth addresses afterwards and no other map
\* changes.
C8_AutoBlockAdds ==
    [][LET c == blkCall'
       IN  (c.op = "AutoBlockAttack" /\ autoBlock) =>
              /\ (/\ c.type \in IPAttackTypes
                  /\ Contains(c.target, <<".">>)
                  /\ ~Has(blockedIPs, c.target)
                  /\ c.runs # <<>> /\ AllOk(c.runs)) =>
                    /\ c.err = "none"
                    /\ blockedIPs' = Put(blockedIPs, c.target, clock + 1)
                    /\ blockedMACs' = blockedMACs
                    /\ blockedBTAddrs' = blockedBTAddrs
              /\ (c.type \in BTAttackTypes /\ AllOk(c.runs)) =>
                    /\ Has(blockedBTAddrs', c.target)
                    /\ \A a \in Addrs \ {c.target} :
                          Has(blockedBTAddrs', a) = Has(blockedBTAddrs, a)
                    /\ blockedIPs' = blockedIPs
                    /\ blockedMACs' = blockedMACs
      ]_vars

\* an UNKNOWN_DEVICE finding was auto-blocked as an IP
C8_Witness ==
    /\ blkCall.op = "AutoBlockAttack"
    /\ blkCall.enabled
    /\ blkCall.type = "UNKNOWN_DEVICE"
    /\ blkCall.err = "none"
    /\ blkCall.runs # <<>>
    /\ Has(blockedIPs, blkCall.target)
    /\ blockedIPs[blkCall.target] = clock

\* C9: with auto-block enabled, AutoBlockAttack changes none of the three
\* maps and returns no error on an EVIL_TWIN or ROGUE_AP finding, on an
\* UNKNOWN_DEVICE / SUSPICIOUS_PORT / AI_CONNECTION_ANOMALY finding whose target
\* has no ".", and on a finding of any type outside the mapped ones.
C9_AutoBlockSkips ==
    [][LET c == blkCall'
       IN  (/\ c.op = "AutoBlockAttack"
            /\ autoBlock
            /\ \/ c.type \in WifiAttackTypes
               \/ c.type \in IPAttackTypes /\ ~Contains(c.target, <<".">>)
               \/ c.type \notin IPAttackTypes \cup BTAttackTypes \cup WifiAttackTypes) =>
              /\ BlockedMaps' = BlockedMaps
              /\ c.err = "none"
              /\ c.runs = <<>>
      ]_vars

\* auto-block is on and the IP-type finding has a target without "."
C9_Witness ==
    /\ blkCall.op = "AutoBlockAttack"
    /\ blkCall.enabled
    /\ blkCall.type \in IPAttackTypes
    /\ blkCall.target = PlainAddr
    /\ ~Has(blockedIPs, PlainAddr)

-----------------------------------------------------------------------------
(* GetBlockedItems and its caller, on a host where every tool works. The    *)
(* caller adds PlainAddr to, and deletes DottedAddr from, the returned maps.*)

ItemsBlk ==
    /\ \E a \in Addrs :
          \/ BlockIP(a, GoodEnv) \/ UnblockIP(a, GoodEnv)
          \/ BlockMAC(a, GoodEnv) \/ UnblockMAC(a, GoodEnv)
          \/ BlockBluetoothDevice(a, GoodEnv) \/ UnblockBluetoothDevice(a, GoodEnv)
    /\ UNCHANGED <<logVars, smpVars>>
ItemsGet == GetBlockedItems /\ UNCHANGED <<logVars, smpVars>>
ItemsWrite ==
    /\ \E f \in ItemFields : ItemsPut(f, PlainAddr) \/ ItemsDelete(f, DottedAddr)
    /\ UNCHANGED <<logVars, smpVars>>

ItemsNext == ItemsBlk \/ ItemsGet \/ ItemsWrite

SpecItems == LogSpecInit /\ [][ItemsNext]_vars

\* the three maps of the value GetBlockedItems returned last
ItemsContent ==
    <<Deref(items.BlockedIPs), Deref(items.BlockedMACs), Deref(items.BlockedBTAddrs)>>

\* C10: GetBlockedItems returns maps equal to the Blocker's three maps at the
\* call and leaves those as they are; adding to or deleting from the returned
\* maps never changes the Blocker's maps; a later block or unblock never
\* changes the maps returned earlier.
C10_SnapshotIndependent ==
    [][LET c == blkCall'
       IN  /\ c.op = "GetBlockedItems" =>
                 ItemsContent' = BlockedMaps /\ BlockedMaps' = BlockedMaps
           /\ c.op \in {"ItemsPut", "ItemsDelete"} => BlockedMaps' = BlockedMaps
           /\ (c.op \in MutationOps /\ items.taken) => ItemsContent' = ItemsContent
      ]_vars

\* the caller has added to a returned map, the Blocker has blocked an address
\* since, and the two differ
C10_Witness ==
    /\ items.taken
    /\ blkCall.op = "ItemsPut"
    /\ Deref(items[blkCall.type]) # EmptyMap
    /\ blockedIPs # EmptyMap
    /\ ItemsContent # BlockedMaps
    /\ ~Has(blockedIPs, PlainAddr) /\ Has(Deref(items.BlockedIPs), PlainAddr)

-----------------------------------------------------------------------------
(* The Wi-Fi sampler, pass after pass on a host that may change            *)

WifiTools ==
    \/ MonitorWifi_NoAirodump
    \/ \E host \in MonitorHosts : MonitorWifi_MonitorError(host)
    \/ \E host \in MonitorHosts : MonitorWifi_Using(host)

WifiFallback ==
    \E wireless \in WifiInterfaceResults, scan \in IwResults :
        \/ fallbackScanWifi_NoInterfaces(wireless)
        \/ fallbackScanWifi_ScanFailed(wireless, scan)
        \/ fallbackScanWifi_Publish(wireless, scan)

WifiNext == MonitorWifi_Init \/ WifiTools \/ WifiFallback \/ fallbackScanWifi_Status

SpecWifi == LogSpecInit /\ [][WifiNext]_vars

\* C3: in every reachable state, every health record that exists has at
\* most 10 entries in LogEntries (an append that would make an 11th evicts
\* the oldest).
C3_LogEntriesAtMostTen ==
    \A d \in DOMAIN ServiceStatuses :
        Len(ServiceStatuses[d].LogEntries) <= MaxLogEntries

-----------------------------------------------------------------------------
(* The Bluetooth sampler, pass after pass, and a reader of BtDevices       *)

BtScanStep ==
    \E host \in BtHosts :
        MonitorBluetooth_ScanFailed(host) \/ MonitorBluetooth_Clear(host)

BtNext ==
    \/ MonitorBluetooth_Init
    \/ BtScanStep
    \/ MonitorBluetooth_Append
    \/ MonitorBluetooth_Status
    \/ MonitorBluetooth_Detect
    \/ MonitorBluetooth_AddAttack
    \/ MonitorBluetooth_Return
    \/ ReadBtDevices

SpecBt == LogSpecInit /\ [][BtNext]_vars

\* C4: whatever a reader of BtDevices observes under the read lock is a
\* complete sample set: the one published before the pass in progress or the
\* one that pass publishes, never an emptied or partly filled one.
C4_ReaderSeesCompleteSample == seen.sample \in seen.complete

-----------------------------------------------------------------------------
(* The BLE sampler, pass after pass on a host that may change              *)

BleScanStep ==
    \E host \in BleHosts :
        MonitorAirTag_ScanFailed(host) \/ MonitorAirTag_Clear(host)

BleNext ==
    \/ MonitorAirTag_Init
    \/ BleScanStep
    \/ MonitorAirTag_Append
    \/ MonitorAirTag_Status

SpecBle == LogSpecInit /\ [][BleNext]_vars

\* the labels at which a sampler looks up or runs tools
ToolLabels == {"tools", "fallback", "scan"}

\* this step is a tool step of sampler t, and the last command it used failed
FailedToolStep(t) ==
    /\ pc[t] \in ToolLabels
    /\ pc'[t] # pc[t]
    /\ scanCall'.task = t
    /\ scanCall'.err

\* C11: a step in which the tools of the Wi-Fi, Bluetooth or BLE sampler fail
\* (the last command of the cascade or scan path fails) leaves every
\* domain's sample as it was, sets that domain's health record to "error"
\* with a non-empty message, and changes no other health record.
C11_FailedPassKeepsSample ==
    [][\A t \in {"wifi", "bluetooth", "airtag"} :
          FailedToolStep(t) =>
              /\ UNCHANGED <<WifiAPs, WifiClients, BtDevices, BleDevices>>
              /\ DOMAIN ServiceStatuses' = DOMAIN ServiceStatuses
              /\ ServiceStatuses'[t].Status = "error"
              /\ ServiceStatuses'[t].ErrorMsg # ""
              /\ \A d \in DOMAIN ServiceStatuses \ {t} :
                    ServiceStatuses'[d] = ServiceStatuses[d]]_vars

-----------------------------------------------------------------------------
(* The tool invoker, call after call                                       *)

SudoNext ==
    \E cmd \in SudoCommands, patterns \in SudoPatterns, host \in SudoHosts :
        RunCommandOrSudo(cmd, patterns, host)

SpecSudo == LogSpecInit /\ [][SudoNext]_vars

\* the last call was one of runCommandOrSudo whose first attempt failed with
\* an indicator in its output plus error text
SudoIndicated ==
    /\ fnCall.fn = "runCommandOrSudo"
    /\ fnCall.host.first.err # <<>>
    /\ LET text == fnCall.host.first.output \o fnCall.host.first.err
       IN  \/ \E k \in 1..Len(sudoIndicators) : Contains(text, sudoIndicators[k])
           \/ \E k \in 1..Len(fnCall.patterns) : Contains(text, fnCall.patterns[k])

\* C12: when the command fails, its output plus error text holds a fixed or
\* caller-supplied indicator and sudo is found, runCommandOrSudo runs the
\* command once more, prefixed with sudo and otherwise identical, runs
\* nothing after that, and returns that attempt's command, output and error.
C12_ElevatedOnce ==
    (SudoIndicated /\ fnCall.host.sudo # "") =>
        /\ fnCall.ret.runs = <<fnCall.cmd, <<fnCall.host.sudo>> \o fnCall.cmd>>
        /\ fnCall.ret.cmd = <<fnCall.host.sudo>> \o fnCall.cmd
        /\ fnCall.ret.output = fnCall.host.elevated.output
        /\ fnCall.ret.err = fnCall.host.elevated.err

\* the indicator shows only where the output and the error text join, sudo
\* is there, and the elevated attempt fails with a permission error
C12_Witness ==
    /\ SudoIndicated
    /\ fnCall.host.sudo # ""
    /\ \A k \in 1..Len(sudoIndicators) :
          ~Contains(fnCall.host.first.output, sudoIndicators[k])
    /\ fnCall.patterns = <<>>
    /\ fnCall.host.elevated.err # <<>>
    /\ Len(fnCall.ret.runs) = 2

\* C13: when the command succeeds, or fails with no indicator in its output
\* plus error text, or sudo is not found, runCommandOrSudo runs the command
\* once, never with sudo, and returns its command, output and error as they
\* are.
C13_NoElevation ==
    (fnCall.fn = "runCommandOrSudo" /\ ~(SudoIndicated /\ fnCall.host.sudo # "")) =>
        /\ fnCall.ret.runs = <<fnCall.cmd>>
        /\ fnCall.ret.cmd = fnCall.cmd
        /\ fnCall.ret.output = fnCall.host.first.output
        /\ fnCall.ret.err = fnCall.host.first.err

\* an indicated failure on a host without sudo: the first attempt stands
C13_Witness ==
    /\ SudoIndicated
    /\ fnCall.host.sudo = ""
    /\ fnCall.ret.err = fnCall.host.first.err
    /\ fnCall.ret.runs = <<fnCall.cmd>>

-----------------------------------------------------------------------------
(* The Wi-Fi heuristics, call after call                                   *)

DetectWifiNext ==
    \E devices \in APLists :
        \E order \in RangeOrders(ssidCounts(devices)) :
            DetectWiFiAttacksCall(devices, order)

SpecDetectWifi == LogSpecInit /\ [][DetectWifiNext]_vars

\* the findings of type `type` the last call of DetectWiFiAttacks returned
WifiFindings(type) ==
    LET OfType(finding) == finding.Type = type
    IN  SelectSeq(fnCall.ret, OfType)

\* the places of the last call's list whose access point has the SSID `ssid`
PlacesOf(ssid) ==
    {i \in 1..Len(fnCall.devices) : fnCall.devices[i].ESSID = ssid}

\* the SSIDs of the last call's list
ListedSSIDs == {fnCall.devices[i].ESSID : i \in 1..Len(fnCall.devices)}

\* how many of the findings are about `ssid`
About(findings, ssid) ==
    Cardinality({i \in 1..Len(findings) : findings[i].Target = ssid})

\* a and b are one letter, whatever the case
SameLetter(a, b) ==
    \/ a = b
    \/ \E k \in 1..Len(UpperCase) : {a, b} = {UpperCase[k], LowerCase[k]}

\* s holds word, letter case aside
HoldsWord(s, word) ==
    \E at \in 0..(Len(s) - Len(word)) :
        \A k \in 1..Len(word) : SameLetter(s[at + k], word[k])

\* C14: for every list of access points, DetectWiFiAttacks yields exactly
\* one EVIL_TWIN finding, of severity High and with the SSID as target, for
\* each SSID that is not empty, is not "Hidden" and occurs with at least two
\* distinct BSSIDs, and no EVIL_TWIN finding for any other SSID.
C14_EvilTwinPerSSID ==
    fnCall.fn = "DetectWiFiAttacks" =>
        LET twins == WifiFindings("EVIL_TWIN")
            BSSIDsOf(ssid) == {fnCall.devices[i].BSSID : i \in PlacesOf(ssid)}
            Twinned(ssid) ==
                /\ ssid # <<>>
                /\ ssid # <<"H", "i", "d", "d", "e", "n">>
                /\ Cardinality(BSSIDsOf(ssid)) >= 2
        IN  /\ \A i \in 1..Len(twins) :
                  twins[i].Severity = "High" /\ twins[i].Target \in ListedSSIDs
            /\ \A ssid \in ListedSSIDs :
                  About(twins, ssid) = IF Twinned(ssid) THEN 1 ELSE 0

\* C15: for every list of access points, DetectWiFiAttacks yields exactly
\* one WEAK_ENCRYPTION finding per access point whose encryption tag holds
\* "wep" in any letter case and none for any other access point, "WPA2"
\* among them: there are as many such findings as such access points.
C15_WeakEncryptionPerAP ==
    fnCall.fn = "DetectWiFiAttacks" =>
        LET weak == WifiFindings("WEAK_ENCRYPTION")
            Wep(i) == HoldsWord(fnCall.devices[i].ENC, <<"w", "e", "p">>)
        IN  /\ Len(weak) = Cardinality({i \in 1..Len(fnCall.devices) : Wep(i)})
            /\ \A i \in 1..Len(weak) : weak[i].Severity = "High"
            /\ \A ssid \in ListedSSIDs :
                  About(weak, ssid) = Cardinality({i \in PlacesOf(ssid) : Wep(i)})

\* a list with the tags "WEP", "WeP-40" and "WPA2": two findings
C15_Witness ==
    /\ fnCall.fn = "DetectWiFiAttacks"
    /\ Len(fnCall.devices) = 3
    /\ {fnCall.devices[i].ENC : i \in 1..3} = {<<"W", "E", "P">>, <<"W", "e", "P", "-", "4", "0">>, <<"W", "P", "A", "2">>}
    /\ Len(WifiFindings("WEAK_ENCRYPTION")) = 2

\* C20: for every list of access points, DetectWiFiAttacks yields exactly
\* one ROGUE_AP finding, of severity High, for each access point whose SSID
\* holds, letter case aside, at least one of free, public, hack, test, evil,
\* wifi, guest, default (one finding even when several match), and none for
\* any other access point.
C20_RoguePerAP ==
    fnCall.fn = "DetectWiFiAttacks" =>
        LET rogue == WifiFindings("ROGUE_AP")
            Suspicious(i) ==
                \E k \in 1..Len(roguePatterns) :
                    HoldsWord(fnCall.devices[i].ESSID, roguePatterns[k])
        IN  /\ Len(rogue) = Cardinality({i \in 1..Len(fnCall.devices) : Suspicious(i)})
            /\ \A i \in 1..Len(rogue) : rogue[i].Severity = "High"
            /\ \A ssid \in ListedSSIDs :
                  About(rogue, ssid) = Cardinality({i \in PlacesOf(ssid) : Suspicious(i)})

\* "Free WiFi", which holds two of the words in another letter case, listed
\* twice next to "Office": two findings
C20_Witness ==
    /\ fnCall.fn = "DetectWiFiAttacks"
    /\ Len(fnCall.devices) = 3
    /\ Cardinality(PlacesOf(<<"F", "r", "e", "e", " ", "W", "i", "F", "i">>)) = 2
    /\ Cardinality(PlacesOf(<<"O", "f", "f", "i", "c", "e">>)) = 1
    /\ Len(WifiFindings("ROGUE_AP")) = 2

-----------------------------------------------------------------------------
(* The Bluetooth heuristics, call after call                               *)

DetectBtNext ==
    \E devices \in BtSamples : DetectBluetoothAttacksCall(devices)

SpecDetectBt == LogSpecInit /\ [][DetectBtNext]_vars

\* the mass-scanning findings the last call of DetectBluetoothAttacks returned
MassScanningFindings ==
    LET Mass(finding) == finding.Type = "BLUETOOTH_MASS_SCANNING"
    IN  SelectSeq(fnCall.ret, Mass)

\* C16: DetectBluetoothAttacks yields exactly one BLUETOOTH_MASS_SCANNING
\* finding, of severity Medium, when the sample has more than 20 devices,
\* and none when it has 20 or fewer, whatever the devices' names.
C16_MassScanningAboveTwenty ==
    fnCall.fn = "DetectBluetoothAttacks" =>
        /\ Len(fnCall.devices) >= 21 =>
              /\ Len(MassScanningFindings) = 1
              /\ MassScanningFindings[1].Severity = "Medium"
        /\ Len(fnCall.devices) <= 20 => MassScanningFindings = <<>>

\* a sample of exactly 21 devices, one of them with a name the other loops
\* report: one mass-scanning finding among the findings
C16_Witness ==
    /\ fnCall.fn = "DetectBluetoothAttacks"
    /\ Len(fnCall.devices) = 21
    /\ Len(MassScanningFindings) = 1
    /\ Len(fnCall.ret) = 2

\* a sample of exactly 20 devices, all with a suspicious name: twenty
\* findings, none of them for mass scanning
C16_WitnessTwenty ==
    /\ fnCall.fn = "DetectBluetoothAttacks"
    /\ Len(fnCall.devices) = 20
    /\ Len(fnCall.ret) = 20
    /\ MassScanningFindings = <<>>

-----------------------------------------------------------------------------
(* The Blocker's tool cascades, host by host                               *)

\* the call with which a behaviour ends: its operation, its address, the
\* host it met, and whether the address was in the operation's map before
Probed(op, a, env, blocked) ==
    /\ fnCall.fn = "none"
    /\ fnCall' = [fn |-> op, target |-> a, env |-> env, blocked |-> blocked]
    /\ UNCHANGED <<logVars, ServiceStatuses, logged, WifiAPs, WifiClients,
                   BtDevices, BleDevices, scanCall, pc, loc, passes, seen, tskVars>>

\* calls on a host where every tool works bring the maps to any content
ToolsSetup ==
    /\ fnCall.fn = "none"
    /\ \E a \in Addrs :
          \/ BlockIP(a, GoodEnv) \/ UnblockIP(a, GoodEnv)
          \/ BlockMAC(a, GoodEnv) \/ UnblockMAC(a, GoodEnv)
          \/ BlockBluetoothDevice(a, GoodEnv) \/ UnblockBluetoothDevice(a, GoodEnv)
    /\ UNCHANGED <<logVars, smpVars>>

ProbeIP ==
    \E a \in Addrs, env \in IPEnvs :
        \/ BlockIP(a, env) /\ Probed("BlockIP", a, env, Has(blockedIPs, a))
        \/ UnblockIP(a, env) /\ Probed("UnblockIP", a, env, Has(blockedIPs, a))

ProbeMAC ==
    \E a \in Addrs, env \in MACEnvs :
        \/ BlockMAC(a, env) /\ Probed("BlockMAC", a, env, Has(blockedMACs, a))
        \/ UnblockMAC(a, env) /\ Probed("UnblockMAC", a, env, Has(blockedMACs, a))

ProbeBT ==
    \E a \in Addrs, env \in BTEnvs :
        \/ /\ BlockBluetoothDevice(a, env)
           /\ Probed("BlockBluetoothDevice", a, env, Has(blockedBTAddrs, a))
        \/ /\ UnblockBluetoothDevice(a, env)
           /\ Probed("UnblockBluetoothDevice", a, env, Has(blockedBTAddrs, a))

ToolsNext == ToolsSetup \/ ProbeIP \/ ProbeMAC \/ ProbeBT

SpecTools == Init /\ [][ToolsNext]_vars

\* the tool a command belongs to
ToolOf(cmd) == CHOOSE tool \in GoodEnv.avail : cmd \in CommandsOf(tool)

\* the tools the last call ran a command of
ToolsRun == {ToolOf(blkCall.runs[i].cmd) : i \in 1..Len(blkCall.runs)}

\* the last call was `block` on an address not yet in its map, or `unblock`
\* on an address in it: the call got as far as its tools
ProbedPast(block, unblock) ==
    \/ fnCall.fn = block /\ ~fnCall.blocked
    \/ fnCall.fn = unblock /\ fnCall.blocked

\* the tool is installed on the host of the last call and its commands exit 0
Works(tool) ==
    /\ tool \in fnCall.env.avail
    /\ CommandsOf(tool) \cap fnCall.env.failing = {}

\* C17: a BlockIP or UnblockIP call that gets as far as its tools uses one
\* enforcement tool, the first installed among ufw, firewall-cmd, iptables in
\* that order: when a command of that tool fails the call returns an error
\* and no later tool is tried, and when none of the three is installed the
\* call returns an error and nothing is run.
C17_OneFirewallTool ==
    ProbedPast("BlockIP", "UnblockIP") =>
        LET order == <<"ufw", "firewall-cmd", "iptables">>
            installed == {k \in 1..3 : order[k] \in fnCall.env.avail}
        IN  IF installed = {}
            THEN blkCall.runs = <<>> /\ blkCall.err # "none"
            ELSE LET first == order[CHOOSE k \in installed : \A j \in installed : k <= j]
                 IN  /\ ToolsRun = {first}
                     /\ (\E i \in 1..Len(blkCall.runs) : ~blkCall.runs[i].ok) =>
                           blkCall.err # "none"
                     /\ blkCall.err = "none" <=> Works(first)

\* ufw is installed and fails while firewall-cmd and iptables are installed
\* and work: BlockIP runs ufw alone and returns an error
C17_Witness ==
    /\ fnCall.fn = "BlockIP"
    /\ ~fnCall.blocked
    /\ fnCall.env.avail = {"ufw", "firewall-cmd", "iptables"}
    /\ fnCall.env.failing = {"ufw"}
    /\ ToolsRun = {"ufw"}
    /\ blkCall.err = "tool_failed"

\* C18: a BlockMAC or UnblockMAC call that gets as far as its tools runs
\* ebtables first when it is installed, runs iptables only when ebtables is
\* not installed or failed, succeeds and updates the blocked-MAC map exactly
\* when one of the two paths succeeds, and returns an error only when none
\* does.
C18_MACFallback ==
    ProbedPast("BlockMAC", "UnblockMAC") =>
        LET runs == blkCall.runs
            Ran(tool) == \E i \in 1..Len(runs) : runs[i].cmd = tool
            recorded == Has(blockedMACs, fnCall.target)
        IN  /\ "ebtables" \in fnCall.env.avail <=> Ran("ebtables")
            /\ Ran("ebtables") => runs[1].cmd = "ebtables"
            /\ Ran("iptables") <=>
                  (~Works("ebtables") /\ "iptables" \in fnCall.env.avail)
            /\ Len(runs) <= 2
            /\ blkCall.err = "none" <=> (Works("ebtables") \/ Works("iptables"))
            /\ blkCall.err = "none" <=> (recorded # fnCall.blocked)

\* ebtables is installed and fails, iptables works: UnblockMAC runs both, in
\* that order, succeeds and removes the address
C18_Witness ==
    /\ fnCall.fn = "UnblockMAC"
    /\ fnCall.blocked
    /\ fnCall.env.avail = {"ebtables", "iptables"}
    /\ fnCall.env.failing = {"ebtables"}
    /\ Len(blkCall.runs) = 2
    /\ blkCall.runs[2].cmd = "iptables"
    /\ blkCall.err = "none"
    /\ ~Has(blockedMACs, fnCall.target)

\* C19: BlockBluetoothDevice on an address not yet blocked records it, and
\* UnblockBluetoothDevice on a blocked address removes it, whether or not
\* rfkill is installed: without rfkill both succeed and run nothing; only
\* when rfkill is installed and fails does the call return an error and
\* leave the map as it was.
C19_RfkillOptional ==
    ProbedPast("BlockBluetoothDevice", "UnblockBluetoothDevice") =>
        LET recorded == Has(blockedBTAddrs, fnCall.target)
            failed == "rfkill" \in fnCall.env.avail /\ "rfkill" \in fnCall.env.failing
        IN  /\ "rfkill" \notin fnCall.env.avail =>
                  blkCall.runs = <<>> /\ blkCall.err = "none"
            /\ "rfkill" \in fnCall.env.avail =>
                  Len(blkCall.runs) = 1 /\ blkCall.runs[1].cmd = "rfkill"
            /\ blkCall.err # "none" <=> failed
            /\ failed => recorded = fnCall.blocked
            /\ ~failed => recorded # fnCall.blocked

\* rfkill is not installed: BlockBluetoothDevice runs nothing, succeeds and
\* records the address
C19_Witness ==
    /\ fnCall.fn = "BlockBluetoothDevice"
    /\ ~fnCall.blocked
    /\ fnCall.env.avail = {}
    /\ blkCall.runs = <<>>
    /\ blkCall.err = "none"
    /\ Has(blockedBTAddrs, fnCall.target)

\* the findings of type `type` the last call of DetectBluetoothAttacks returned
BtFindings(type) ==
    LET OfType(finding) == finding.Type = type
    IN  SelectSeq(fnCall.ret, OfType)

\* the places of the last call's sample whose device has the address
BtPlacesOf(address) ==
    {i \in 1..Len(fnCall.devices) : fnCall.devices[i].Address = address}

\* the device at place i of the last call's sample holds one of the words in
\* its name, letter case aside
NameHolds(i, words) ==
    \E word \in words : HoldsWord(fnCall.devices[i].Name, word)

\* C21: for every list of Bluetooth devices, DetectBluetoothAttacks yields
\* exactly one BLUETOOTH_SPOOFING finding per device whose name holds, letter
\* case aside, one of attack, hack, exploit, test, spoof, evil, malware,
\* virus, and exactly one BLUETOOTH_MITM finding per device whose name holds
\* one of proxy, gateway, bridge, intercept: each of severity High with the
\* device's address as target, one of each type at most per device however
\* many words match, and none for the other devices.
C21_NameFindingsPerDevice ==
    fnCall.fn = "DetectBluetoothAttacks" =>
        LET spoofing == BtFindings("BLUETOOTH_SPOOFING")
            mitm == BtFindings("BLUETOOTH_MITM")
            spoofWords == {<<"a", "t", "t", "a", "c", "k">>, <<"h", "a", "c", "k">>, <<"e", "x", "p", "l", "o", "i", "t">>, <<"t", "e", "s", "t">>,
                           <<"s", "p", "o", "o", "f">>, <<"e", "v", "i", "l">>, <<"m", "a", "l", "w", "a", "r", "e">>, <<"v", "i", "r", "u", "s">>}
            mitmWords == {<<"p", "r", "o", "x", "y">>, <<"g", "a", "t", "e", "w", "a", "y">>, <<"b", "r", "i", "d", "g", "e">>, <<"i", "n", "t", "e", "r", "c", "e", "p", "t">>}
            addresses == {fnCall.devices[i].Address : i \in 1..Len(fnCall.devices)}
            PerDevice(findings, words) ==
                /\ Len(findings) =
                      Cardinality({i \in 1..Len(fnCall.devices) : NameHolds(i, words)})
                /\ \A i \in 1..Len(findings) :
                      findings[i].Severity = "High" /\ findings[i].Target \in addresses
                /\ \A address \in addresses :
                      About(findings, address) =
                          Cardinality({i \in BtPlacesOf(address) : NameHolds(i, words)})
        IN  PerDevice(spoofing, spoofWords) /\ PerDevice(mitm, mitmWords)

\* a plain device next to one whose name holds two spoofing words and two
\* relay words in capitals: one finding of each type, both about the latter
C21_Witness ==
    /\ fnCall.fn = "DetectBluetoothAttacks"
    /\ Len(fnCall.devices) = 2
    /\ fnCall.devices[1].Name = <<"P", "h", "o", "n", "e">>
    /\ fnCall.devices[2].Name = <<"T", "E", "S", "T", " ", "G", "a", "t", "e", "w", "a", "y", "-", "B", "r", "i", "d", "g", "e", " ", "H", "a", "c", "k">>
    /\ Len(BtFindings("BLUETOOTH_SPOOFING")) = 1
    /\ Len(BtFindings("BLUETOOTH_MITM")) = 1
    /\ Len(fnCall.ret) = 2

-----------------------------------------------------------------------------
(* The heuristics called while the Bluetooth sampler runs                  *)

\* the lists DetectWiFiAttacks is called on here: two access points, the
\* first of them "Home" at a1
PairsOfAPs ==
    {devices \in APLists :
        /\ Len(devices) = 2
        /\ devices[1].BSSID = "a1"}

\* DetectWiFiAttacks on a list of the caller's
DetectWifiOnPair ==
    \E devices \in PairsOfAPs :
        \E order \in RangeOrders(ssidCounts(devices)) :
            DetectWiFiAttacksCall(devices, order)

\* DetectBluetoothAttacks on the sample as it stands
DetectBtOnSample == DetectBluetoothAttacksCall(BtDevices)

DetectSharedNext == BtNext \/ DetectWifiOnPair \/ DetectBtOnSample

SpecDetectShared == LogSpecInit /\ [][DetectSharedNext]_vars

\* the findings log, every domain's sample set and the health records
SharedState ==
    <<Attacks, appended, WifiAPs, WifiClients, BtDevices, BleDevices, ServiceStatuses>>

\* C22: DetectWiFiAttacks and DetectBluetoothAttacks never change shared
\* state: a call, made directly or by the Bluetooth pass, leaves the findings
\* log, every domain's sample set, every health record and the list it was
\* given as they were; the log changes only in the caller's AddAttack loop.
C22_HeuristicsLeaveSharedState ==
    [][/\ fnCall' # fnCall =>
             /\ UNCHANGED SharedState
             /\ fnCall'.fn = "DetectBluetoothAttacks" =>
                   fnCall'.devices = BtDevices /\ BtDevices' = BtDevices
       /\ (pc.bluetooth = "detect" /\ pc'.bluetooth # "detect") =>
             /\ UNCHANGED SharedState
             /\ loc'.bluetooth.attacks = DetectBluetoothAttacks(BtDevices)
       /\ Attacks' # Attacks =>
             /\ pc.bluetooth = "add"
             /\ fnCall' = fnCall
             /\ Attacks' = Append(Attacks, Head(loc.bluetooth.attacks))
      ]_vars

\* DetectBluetoothAttacks was called on a published sample and returned
\* findings, after an earlier pass had put its own findings in the log, and
\* the log holds those only
C22_Witness ==
    /\ fnCall.fn = "DetectBluetoothAttacks"
    /\ fnCall.devices # <<>>
    /\ fnCall.devices = BtDevices
    /\ fnCall.ret # <<>>
    /\ Attacks # <<>>
    /\ "bluetooth" \in DOMAIN ServiceStatuses

-----------------------------------------------------------------------------
(* The auto-block flag, set while addresses are blocked and unblocked      *)

FlagNext == ToolsSetup \/ BlkSet

SpecFlag == Init /\ [][FlagNext]_vars

\* C23: SetAutoBlock(e) leaves the auto-block flag equal to e and the three
\* blocked maps as they were; called again with the same value right after,
\* it leaves the Blocker in the state the first call left.
C23_SetAutoBlockIdempotent ==
    [][blkCall'.op = "SetAutoBlock" =>
          /\ autoBlock' = blkCall'.enabled
          /\ BlockedMaps' = BlockedMaps
          /\ (blkCall.op = "SetAutoBlock" /\ blkCall.enabled = blkCall'.enabled) =>
                <<BlockedMaps, autoBlock, clock>>' = <<BlockedMaps, autoBlock, clock>>
      ]_vars

\* the flag was enabled at the start and SetAutoBlock(FALSE) was called while
\* an address of each category was blocked
C23_Witness ==
    /\ blkCall.op = "SetAutoBlock"
    /\ ~blkCall.enabled
    /\ ~autoBlock
    /\ blockedIPs # EmptyMap
    /\ blockedBTAddrs # EmptyMap

-----------------------------------------------------------------------------
(* The Blocker called by two tasks at once: each method statement by        *)
(* statement, b.mu taken and released where the code takes and releases it  *)

BlockMethods == {"BlockIP", "BlockMAC", "BlockBluetoothDevice"}
UnblockMethods == {"UnblockIP", "UnblockMAC", "UnblockBluetoothDevice"}

\* the map a block or unblock method works on
MapOf(method) ==
    IF method \in {"BlockIP", "UnblockIP"} THEN "blockedIPs"
    ELSE IF method \in {"BlockMAC", "UnblockMAC"} THEN "blockedMACs"
    ELSE "blockedBTAddrs"

\* the tool statements of a block or unblock method, between the
\* state-conflict check and the map update
ToolPath(method, env) ==
    IF method \in {"BlockIP", "UnblockIP"}
    THEN LET c == FirewallCascade(env)
         IN  [lookups |-> c.lookups, runs |-> c.runs,
              err |-> IF ~c.found THEN "no_tool"
                      ELSE IF ~AllOk(c.runs) THEN "tool_failed" ELSE "none"]
    ELSE IF method \in {"BlockMAC", "UnblockMAC"}
    THEN MACCascade(env)
    ELSE LET runs == RfkillRun(env)
         IN  [lookups |-> <<"rfkill">>, runs |-> runs,
              err |-> IF AllOk(runs) THEN "none" ELSE "tool_failed"]

\* a host where every tool is installed and every tool fails
BrokenEnv ==
    [avail |-> GoodEnv.avail,
     failing |-> {"ufw", "firewall-cmd", "iptables", "ebtables", "rfkill"}]

TaskEnvs == {GoodEnv, BrokenEnv}

\* the call of a task: op is the method the task called, method the method
\* whose body it is in, before whether the target was blocked when it called
TaskCall(op, target, type, enabled, env, label) ==
    [op |-> op, method |-> op, target |-> target, type |-> type,
     enabled |-> enabled, env |-> env, pc |-> label, before |-> FALSE,
     lookups |-> <<>>, runs |-> <<>>, err |-> "none"]

At(t, label) == tasks[t].pc = label

Step(t, label) == tasks' = [tasks EXCEPT ![t].pc = label]

\* a task calls a block or an unblock method
Task_Block(t, method, a, env) ==
    /\ tasks[t].op = "none"
    /\ tasks' = [tasks EXCEPT ![t] =
                    [TaskCall(method, a, "", FALSE, env, "Lock")
                        EXCEPT !.before = Has(Deref(MapOf(method)), a)]]
    /\ UNCHANGED <<logVars, blkVars, monVars, mu>>

\* a task calls SetAutoBlock(enabled)
Task_SetAutoBlock(t, enabled) ==
    /\ tasks[t].op = "none"
    /\ tasks' = [tasks EXCEPT ![t] =
                    TaskCall("SetAutoBlock", <<>>, "", enabled, NoEnv, "Lock")]
    /\ UNCHANGED <<logVars, blkVars, monVars, mu>>

\* a task calls GetBlockedItems()
Task_GetBlockedItems(t) ==
    /\ tasks[t].op = "none"
    /\ tasks' = [tasks EXCEPT ![t] =
                    TaskCall("GetBlockedItems", <<>>, "", FALSE, NoEnv, "RLock")]
    /\ UNCHANGED <<logVars, blkVars, monVars, mu>>

\* a task calls AutoBlockAttack(attack)
Task_AutoBlockAttack(t, attack, env) ==
    /\ tasks[t].op = "none"
    /\ tasks' = [tasks EXCEPT ![t] =
                    TaskCall("AutoBlockAttack", attack.Target, attack.Type,
                             FALSE, env, "Flag")]
    /\ UNCHANGED <<logVars, blkVars, monVars, mu>>

\* AutoBlockAttack: `if !b.autoBlock { return nil }` and the switch on the
\* type, which calls BlockIP or BlockBluetoothDevice
AutoBlockAttack_Flag(t) ==
    /\ At(t, "Flag")
    /\ LET c == tasks[t]
           callee == IF ~autoBlock THEN "none"
                     ELSE IF c.type \in IPAttackTypes
                     THEN IF Contains(c.target, <<".">>) THEN "BlockIP" ELSE "none"
                     ELSE IF c.type \in BTAttackTypes THEN "BlockBluetoothDevice"
                     ELSE "none"
       IN  tasks' = [tasks EXCEPT
                        ![t].method = IF callee = "none" THEN @ ELSE callee,
                        ![t].before = IF callee = "none" THEN @
                                      ELSE Has(Deref(MapOf(callee)), c.target),
                        ![t].pc = IF callee = "none" THEN "done" ELSE "Lock"]
    /\ UNCHANGED <<logVars, blkVars, monVars, mu>>

\* b.mu.Lock()
Blocker_Lock(t) ==
    /\ At(t, "Lock")
    /\ Lock("b.mu", t)
    /\ Step(t, IF tasks[t].method = "SetAutoBlock" THEN "SetFlag" ELSE "Exists")
    /\ UNCHANGED <<logVars, blkVars, monVars>>

\* `if _, exists := b.blockedIPs[ip]; exists { return ... }` of a block
\* method, `!exists` of an unblock method
Blocker_Exists(t) ==
    /\ At(t, "Exists")
    /\ LET c == tasks[t]
           exists == Has(Deref(MapOf(c.method)), c.target)
           conflict == IF c.method \in BlockMethods THEN exists ELSE ~exists
       IN  tasks' = [tasks EXCEPT
                        ![t].err = IF conflict THEN "conflict" ELSE "none",
                        ![t].pc = IF conflict THEN "Unlock" ELSE "Tools"]
    /\ UNCHANGED <<logVars, blkVars, monVars, mu>>

\* the tool statements: the look-ups and the commands run
Blocker_Tools(t) ==
    /\ At(t, "Tools")
    /\ LET c == tasks[t]
           p == ToolPath(c.method, c.env)
       IN  tasks' = [tasks EXCEPT
                        ![t].lookups = p.lookups,
                        ![t].runs = p.runs,
                        ![t].err = p.err,
                        ![t].pc = IF p.err = "none" THEN "Record" ELSE "Unlock"]
    /\ UNCHANGED <<logVars, blkVars, monVars, mu>>

\* `b.blockedIPs[ip] = time.Now()` of a block method, `delete(b.blockedIPs,
\* ip)` of an unblock method
Blocker_Record(t) ==
    /\ At(t, "Record")
    /\ LET c == tasks[t]
           ref == MapOf(c.method)
       IN  IF c.method \in BlockMethods
           THEN /\ clock < MaxClock
                /\ WriteRef(ref, Put(Deref(ref), c.target, Now))
                /\ clock' = clock + 1
           ELSE /\ WriteRef(ref, Delete(Deref(ref), c.target))
                /\ clock' = clock
    /\ Step(t, "Unlock")
    /\ UNCHANGED <<logVars, autoBlock, blkCall, items, monVars, mu>>

\* SetAutoBlock: `b.autoBlock = enabled`
SetAutoBlock_SetFlag(t) ==
    /\ At(t, "SetFlag")
    /\ autoBlock' = tasks[t].enabled
    /\ Step(t, "Unlock")
    /\ UNCHANGED <<logVars, blockedIPs, blockedMACs, blockedBTAddrs, clock,
                   blkCall, items, copies, monVars, mu>>

\* the deferred b.mu.Unlock() and the return
Blocker_Unlock(t) ==
    /\ At(t, "Unlock")
    /\ Unlock("b.mu", t)
    /\ Step(t, "done")
    /\ LET c == tasks[t]
       IN  blkCall' = Call(c.op, c.target, c.type,
                           IF c.op = "SetAutoBlock" THEN c.enabled ELSE autoBlock,
                           c.lookups, c.runs, c.err)
    /\ UNCHANGED <<logVars, blockedIPs, blockedMACs, blockedBTAddrs, autoBlock,
                   clock, items, copies, monVars>>

\* GetBlockedItems: b.mu.RLock()
GetBlockedItems_RLock(t) ==
    /\ At(t, "RLock")
    /\ RLock("b.mu", t)
    /\ Step(t, "Copy")
    /\ UNCHANGED <<logVars, blkVars, monVars>>

\* GetBlockedItems: the three copyBlockedMap calls
GetBlockedItems_Copy(t) ==
    /\ At(t, "Copy")
    /\ GetBlockedItems
    /\ Step(t, "RUnlock")
    /\ UNCHANGED <<logVars, monVars, mu>>

\* GetBlockedItems: the deferred b.mu.RUnlock() and the return
GetBlockedItems_RUnlock(t) ==
    /\ At(t, "RUnlock")
    /\ RUnlock("b.mu", t)
    /\ Step(t, "done")
    /\ UNCHANGED <<logVars, blkVars, monVars>>

\* before the tasks call: addresses blocked on a host where every tool works
TaskSetup ==
    /\ \A t \in Tasks : tasks[t].op = "none"
    /\ \/ BlockIP(DottedAddr, GoodEnv)
       \/ BlockMAC(DottedAddr, GoodEnv)
       \/ BlockBluetoothDevice(DottedAddr, GoodEnv)
    /\ UNCHANGED <<logVars, smpVars>>

\* the findings the tasks hand to AutoBlockAttack
TaskFindings == [Type : {"UNKNOWN_DEVICE", "BLUETOOTH_MITM", "EVIL_TWIN"}, Target : Addrs]

TskBlock ==
    \E t \in Tasks, method \in BlockMethods \cup UnblockMethods, env \in TaskEnvs :
        Task_Block(t, method, DottedAddr, env)
TskSet == \E t \in Tasks, e \in BOOLEAN : Task_SetAutoBlock(t, e)
TskGet == \E t \in Tasks : Task_GetBlockedItems(t)
TskAuto == \E t \in Tasks, attack \in TaskFindings : Task_AutoBlockAttack(t, attack, GoodEnv)
TskFlag == \E t \in Tasks : AutoBlockAttack_Flag(t)
TskLock == \E t \in Tasks : Blocker_Lock(t)
TskExists == \E t \in Tasks : Blocker_Exists(t)
TskTools == \E t \in Tasks : Blocker_Tools(t)
TskRecord == \E t \in Tasks : Blocker_Record(t)
TskSetFlag == \E t \in Tasks : SetAutoBlock_SetFlag(t)
TskUnlock == \E t \in Tasks : Blocker_Unlock(t)
TskRLock == \E t \in Tasks : GetBlockedItems_RLock(t)
TskCopy == \E t \in Tasks : GetBlockedItems_Copy(t)
TskRUnlock == \E t \in Tasks : GetBlockedItems_RUnlock(t)

BlockerTasksNext ==
    \/ TaskSetup \/ TskBlock \/ TskSet \/ TskGet \/ TskAuto \/ TskFlag
    \/ TskLock \/ TskExists \/ TskTools \/ TskRecord \/ TskSetFlag \/ TskUnlock
    \/ TskRLock \/ TskCopy \/ TskRUnlock

SpecBlockerTasks == Init /\ [][BlockerTasksNext]_vars

\* the fields of the Blocker the next statement of task t reads, and those it
\* writes
BlockerReads(t) ==
    IF At(t, "Flag") THEN {"autoBlock"}
    ELSE IF At(t, "Exists") THEN {MapOf(tasks[t].method)}
    ELSE IF At(t, "Copy") THEN OwnRefs
    ELSE IF At(t, "Record") THEN {MapOf(tasks[t].method)}
    ELSE {}

BlockerWrites(t) ==
    IF At(t, "SetFlag") THEN {"autoBlock"}
    ELSE IF At(t, "Record") THEN {MapOf(tasks[t].method)}
    ELSE {}

\* C24: a task about to read a map or the auto-block flag of the Blocker holds
\* b.mu (shared or exclusive), a task about to write one holds it exclusively,
\* and no task is about to read or write a field another task is about to
\* write.
C24_BlockerAccessesUnderLock ==
    \A t \in Tasks :
        /\ BlockerReads(t) # {} => HoldsRLock("b.mu", t)
        /\ BlockerWrites(t) # {} => HoldsLock("b.mu", t)
        /\ \A u \in Tasks \ {t} :
              BlockerWrites(t) \cap (BlockerReads(u) \cup BlockerWrites(u)) = {}

\* a task that is between the state-conflict check and the release of the lock
\* of a block or unblock method
InBlockSection(t) ==
    /\ tasks[t].op # "none"
    /\ tasks[t].method \in BlockMethods \cup UnblockMethods
    /\ tasks[t].pc \in {"Exists", "Tools", "Record", "Unlock"}

\* two calls, both returned, that blocked the same address of the same
\* category, not blocked when the first of them was made, on a host where the
\* tools work
BlockedTogether(t, u) ==
    /\ t # u
    /\ At(t, "done") /\ At(u, "done")
    /\ tasks[t].method \in BlockMethods
    /\ tasks[u].method = tasks[t].method
    /\ tasks[u].target = tasks[t].target
    /\ tasks[t].env = GoodEnv /\ tasks[u].env = GoodEnv
    /\ (~tasks[t].before \/ ~tasks[u].before)

\* C25: no two tasks are inside block or unblock methods (from the
\* state-conflict check to the map update) at once, whatever the categories;
\* of two calls that block the same not-yet-blocked address with working
\* tools one returns no error, the other a state conflict, and the tool was
\* run once.
C25_BlockCallsExclude ==
    \A t \in Tasks : \A u \in Tasks \ {t} :
        /\ ~(InBlockSection(t) /\ InBlockSection(u))
        /\ BlockedTogether(t, u) =>
              /\ {tasks[t].err, tasks[u].err} = {"none", "conflict"}
              /\ Len(tasks[t].runs) + Len(tasks[u].runs) = 1
              /\ Has(Deref(MapOf(tasks[t].method)), tasks[t].target)

\* both tasks called BlockIP for the same address before either had recorded
\* it; one call succeeded, the other met the conflict
C25_Witness ==
    /\ BlockedTogether("t1", "t2")
    /\ tasks["t1"].op = "BlockIP" /\ tasks["t2"].op = "BlockIP"
    /\ ~tasks["t1"].before /\ ~tasks["t2"].before
    /\ tasks["t1"].err = "conflict"
    /\ tasks["t2"].err = "none"
    /\ Len(tasks["t2"].runs) = 1

-----------------------------------------------------------------------------
(* Two passes of one sampler at once: MonitorBluetooth and MonitorAirTag    *)
(* section by section, each lock taken where the code takes it              *)

PassOps == {"MonitorBluetooth", "MonitorAirTag"}

\* the domain of a sampler, its sample set and the lock of that set
DomainOf(op) == IF op = "MonitorBluetooth" THEN "bluetooth" ELSE "airtag"
SampleOf(op) == IF op = "MonitorBluetooth" THEN BtDevices ELSE BleDevices
SampleLock(op) == IF op = "MonitorBluetooth" THEN "BtMu" ELSE "BleMu"

\* an assignment to the sample set of a sampler
WriteSample(op, sample) ==
    /\ BtDevices' = IF op = "MonitorBluetooth" THEN sample ELSE BtDevices
    /\ BleDevices' = IF op = "MonitorAirTag" THEN sample ELSE BleDevices

\* the hosts the two passes meet: the first tool of the cascade gives any
\* result, the later ones fail
PassHosts(op) ==
    IF op = "MonitorBluetooth"
    THEN {h \in BtHosts : h.btmgmt.err /\ h.bluetoothctl.err}
    ELSE {h \in BleHosts : /\ h.scanOn = h.scan /\ h.btmgmt = h.scan
                           /\ h.scan = [code |-> 1, err |-> TRUE, output |-> <<>>]}

\* the test after the cascade, and the devices the parsing loop will append
PassScanFailed(op, host) ==
    IF op = "MonitorBluetooth" THEN BtScan(host).err
    ELSE BleScanRejected(BleScan(host))

PassParsed(op, host) ==
    IF op = "MonitorBluetooth" THEN ParseBtScan(BtScan(host).output)
    ELSE ParseBleScan(BleScan(host).output)

\* the first StatusMu section of a pass: the record is created when missing.
\* Both tasks run the same sampler.
Pass_Init(t, op) ==
    /\ tasks[t].op = "none"
    /\ \A u \in Tasks : tasks[u].op \in {"none", op}
    /\ CanLock(mu["StatusMu"])
    /\ ServiceStatuses' =
          EnsureStatus(ServiceStatuses, DomainOf(op),
                       IF op = "MonitorBluetooth" THEN "Bluetooth Monitoring"
                       ELSE "AirTag/BLE Monitoring")
    /\ tasks' = [tasks EXCEPT ![t] =
                    [op |-> op, pc |-> "Scan", pending |-> <<>>, attacks |-> <<>>,
                     counted |-> 0, printed |-> 0]]
    /\ UNCHANGED <<logVars, blkVars, logged, WifiAPs, WifiClients, BtDevices,
                   BleDevices, scanCall, fnCall, pc, loc, passes, seen, mu>>

\* the cascade's result is rejected: the StatusMu section that records the
\* error, and the return
Pass_ScanFailed(t) ==
    /\ At(t, "Scan")
    /\ \E host \in PassHosts(tasks[t].op) : PassScanFailed(tasks[t].op, host)
    /\ CanLock(mu["StatusMu"])
    /\ LET d == DomainOf(tasks[t].op)
       IN  SetStatus(d, "error",
                     IF d = "bluetooth" THEN "All Bluetooth scanning methods failed"
                     ELSE "All BLE scanning methods failed",
                     TrimLogEntries(Append(ServiceStatuses[d].LogEntries, NextEvent(d))))
    /\ Step(t, "done")
    /\ UNCHANGED <<logVars, blkVars, WifiAPs, WifiClients, BtDevices, BleDevices,
                   scanCall, fnCall, pc, loc, passes, seen, mu>>

\* the cascade's result is taken and split into lines
Pass_Scanned(t) ==
    /\ At(t, "Scan")
    /\ \E host \in PassHosts(tasks[t].op) :
          /\ ~PassScanFailed(tasks[t].op, host)
          /\ tasks' = [tasks EXCEPT ![t].pending = PassParsed(tasks[t].op, host),
                                    ![t].pc = "Clear.Lock"]
    /\ UNCHANGED <<logVars, blkVars, monVars, mu>>

\* BtMu.Lock(), StatusMu.Lock() and BtMu.RLock() (BleMu for the BLE sampler)
\* at the head of a section
Pass_Lock(t) ==
    /\ \/ /\ tasks[t].pc \in {"Clear.Lock", "Append.Lock"}
          /\ Lock(SampleLock(tasks[t].op), t)
          /\ Step(t, IF At(t, "Clear.Lock") THEN "Clear" ELSE "Append")
       \/ /\ At(t, "Status.Lock")
          /\ Lock("StatusMu", t)
          /\ Step(t, "Status")
       \/ /\ At(t, "Detect.RLock")
          /\ RLock(SampleLock(tasks[t].op), t)
          /\ Step(t, "Detect")
    /\ UNCHANGED <<logVars, blkVars, monVars>>

\* `BtDevices = []BluetoothDevice{}` and BtMu.Unlock()
Pass_Clear(t) ==
    /\ At(t, "Clear")
    /\ WriteSample(tasks[t].op, <<>>)
    /\ Unlock(SampleLock(tasks[t].op), t)
    /\ Step(t, IF tasks[t].pending = <<>> THEN "Status.Lock" ELSE "Append.Lock")
    /\ UNCHANGED <<logVars, blkVars, ServiceStatuses, logged, WifiAPs, WifiClients,
                   scanCall, fnCall, pc, loc, passes, seen>>

\* `BtDevices = append(BtDevices, device)` and BtMu.Unlock()
Pass_Append(t) ==
    /\ At(t, "Append")
    /\ WriteSample(tasks[t].op, Append(SampleOf(tasks[t].op), Head(tasks[t].pending)))
    /\ Unlock(SampleLock(tasks[t].op), t)
    /\ tasks' = [tasks EXCEPT
                    ![t].pending = Tail(@),
                    ![t].pc = IF Tail(tasks[t].pending) = <<>> THEN "Status.Lock"
                              ELSE "Append.Lock"]
    /\ UNCHANGED <<logVars, blkVars, ServiceStatuses, logged, WifiAPs, WifiClients,
                   scanCall, fnCall, pc, loc, passes, seen>>

\* the StatusMu section after the loop: the entry that is logged holds
\* len(BtDevices); and StatusMu.Unlock()
Pass_Status(t) ==
    /\ At(t, "Status")
    /\ LET d == DomainOf(tasks[t].op)
       IN  SetStatus(d, "running", "",
                     TrimLogEntries(Append(ServiceStatuses[d].LogEntries, NextEvent(d))))
    /\ Unlock("StatusMu", t)
    /\ tasks' = [tasks EXCEPT ![t].counted = Len(SampleOf(tasks[t].op)),
                              ![t].pc = "Printf"]
    /\ UNCHANGED <<logVars, blkVars, WifiAPs, WifiClients, BtDevices, BleDevices,
                   scanCall, fnCall, pc, loc, passes, seen>>

\* `log.Printf("Monitored %d ... devices", len(BtDevices))`; MonitorAirTag
\* returns after it
Pass_Printf(t) ==
    /\ At(t, "Printf")
    /\ tasks' = [tasks EXCEPT ![t].printed = Len(SampleOf(tasks[t].op)),
                              ![t].pc = IF tasks[t].op = "MonitorBluetooth"
                                        THEN "Detect.RLock" ELSE "done"]
    /\ UNCHANGED <<logVars, blkVars, monVars, mu>>

\* `btAttacks := DetectBluetoothAttacks(BtDevices)` and BtMu.RUnlock()
Pass_Detect(t) ==
    /\ At(t, "Detect")
    /\ RUnlock("BtMu", t)
    /\ LET btAttacks == DetectBluetoothAttacks(BtDevices)
       IN  tasks' = [tasks EXCEPT ![t].attacks = btAttacks,
                                  ![t].pc = IF btAttacks = <<>> THEN "done"
                                            ELSE "AddAttack"]
    /\ UNCHANGED <<logVars, blkVars, monVars>>

\* the closing loop: AddAttack on the next finding
Pass_AddAttack(t) ==
    /\ At(t, "AddAttack")
    /\ CanLock(mu["AttackMu"])
    /\ AddAttack(Head(tasks[t].attacks))
    /\ tasks' = [tasks EXCEPT ![t].attacks = Tail(@),
                              ![t].pc = IF Tail(tasks[t].attacks) = <<>> THEN "done"
                                        ELSE "AddAttack"]
    /\ UNCHANGED <<blkVars, monVars, mu>>

PassInit == \E t \in Tasks, op \in PassOps : Pass_Init(t, op)
PassScanFail == \E t \in Tasks : Pass_ScanFailed(t)
PassScanned == \E t \in Tasks : Pass_Scanned(t)
PassLock == \E t \in Tasks : Pass_Lock(t)
PassClear == \E t \in Tasks : Pass_Clear(t)
PassAppend == \E t \in Tasks : Pass_Append(t)
PassStatus == \E t \in Tasks : Pass_Status(t)
PassPrintf == \E t \in Tasks : Pass_Printf(t)
PassDetect == \E t \in Tasks : Pass_Detect(t)
PassAddAttack == \E t \in Tasks : Pass_AddAttack(t)

PassesNext ==
    \/ PassInit \/ PassScanFail \/ PassScanned \/ PassLock \/ PassClear
    \/ PassAppend \/ PassStatus \/ PassPrintf \/ PassDetect \/ PassAddAttack

SpecPasses == Init /\ [][PassesNext]_vars

\* the next statement of task t reads the sample set of its sampler; it
\* writes it
ReadsSample(t) == tasks[t].pc \in {"Append", "Status", "Printf", "Detect"}
WritesSample(t) == tasks[t].pc \in {"Clear", "Append"}

\* C26: a sampler task about to read its sample set (its length included)
\* holds the lock of that set, shared or exclusive; about to write it, it
\* holds the lock exclusively; and of two passes of one sampler, none is
\* about to read the set without the lock while the other is about to write
\* it.
C26_SampleAccessesUnderLock ==
    \A t \in Tasks :
        /\ ReadsSample(t) => HoldsRLock(SampleLock(tasks[t].op), t)
        /\ WritesSample(t) => HoldsLock(SampleLock(tasks[t].op), t)
        /\ \A u \in Tasks \ {t} :
              ~(/\ ReadsSample(t)
                /\ ~HoldsRLock(SampleLock(tasks[t].op), t)
                /\ WritesSample(u))

-----------------------------------------------------------------------------
(* AddAttack called by two tasks at once, statement by statement            *)

\* how many findings each task appends at most
MaxTaskAppends == 2

\* the k-th finding task t hands to AddAttack
TaskFinding(t, k) == [Type |-> "ROGUE_AP", Target |-> t, Timestamp |-> k]

\* a task calls AddAttack(attack)
Task_AddAttack(t) ==
    /\ tasks[t].pc \in {"idle", "done"}
    /\ tasks[t].op \in {"none", "AddAttack"}
    /\ LET n == IF tasks[t].op = "none" THEN 0 ELSE tasks[t].n
       IN  /\ n < MaxTaskAppends
           /\ tasks' = [tasks EXCEPT ![t] =
                           [op |-> "AddAttack", pc |-> "Lock", n |-> n + 1,
                            attack |-> TaskFinding(t, n + 1), grown |-> <<>>]]
    /\ UNCHANGED <<logVars, blkVars, monVars, mu>>

\* AttackMu.Lock()
AddAttack_Lock(t) ==
    /\ tasks[t].op = "AddAttack"
    /\ At(t, "Lock")
    /\ Lock("AttackMu", t)
    /\ Step(t, "Append")
    /\ UNCHANGED <<logVars, blkVars, monVars>>

\* `append(Attacks, attack)`: the slice is read and the grown slice made
AddAttack_Append(t) ==
    /\ tasks[t].op = "AddAttack"
    /\ At(t, "Append")
    /\ tasks' = [tasks EXCEPT ![t].grown = Append(Attacks, tasks[t].attack),
                              ![t].pc = "Assign"]
    /\ UNCHANGED <<logVars, blkVars, monVars, mu>>

\* `Attacks = ...`: the grown slice is assigned
AddAttack_Assign(t) ==
    /\ tasks[t].op = "AddAttack"
    /\ At(t, "Assign")
    /\ appended < MaxAppends
    /\ Attacks' = tasks[t].grown
    /\ appended' = appended + 1
    /\ Step(t, "Trim")
    /\ UNCHANGED <<logCall, blkVars, monVars, mu>>

\* the trim to the last 1000, the deferred AttackMu.Unlock() and the return
AddAttack_Trim(t) ==
    /\ tasks[t].op = "AddAttack"
    /\ At(t, "Trim")
    /\ Attacks' = IF Len(Attacks) > MaxAttacks
                  THEN SliceFrom(Attacks, Len(Attacks) - MaxAttacks)
                  ELSE Attacks
    /\ logCall' = [op |-> "AddAttack"]
    /\ Unlock("AttackMu", t)
    /\ Step(t, "done")
    /\ UNCHANGED <<appended, blkVars, monVars>>

AddCall == \E t \in Tasks : Task_AddAttack(t)
AddLock == \E t \in Tasks : AddAttack_Lock(t)
AddAppend == \E t \in Tasks : AddAttack_Append(t)
AddAssign == \E t \in Tasks : AddAttack_Assign(t)
AddTrim == \E t \in Tasks : AddAttack_Trim(t)

LogTasksNext == AddCall \/ AddLock \/ AddAppend \/ AddAssign \/ AddTrim

SpecLogTasks == Init /\ [][LogTasksNext]_vars

\* how many findings task t has appended: its calls, less the one that has
\* not assigned yet
AppendedBy(t) ==
    IF tasks[t].op = "none" THEN 0
    ELSE IF tasks[t].pc \in {"Lock", "Append", "Assign"} THEN tasks[t].n - 1
    ELSE tasks[t].n

\* where the k-th finding of task t stands in the log
LogPlacesOf(t, k) == {i \in 1..Len(Attacks) : Attacks[i] = TaskFinding(t, k)}

\* C27: whatever the interleaving of the tasks' AddAttack calls, while at most
\* 1000 findings were appended the log holds every finding appended exactly
\* once and nothing else, and the findings of one task stand in the order the
\* task appended them.
C27_NoAppendLost ==
    appended <= MaxAttacks =>
        /\ \A t \in Tasks : \A k \in 1..AppendedBy(t) :
              Cardinality(LogPlacesOf(t, k)) = 1
        /\ Len(Attacks) = appended
        /\ \A i \in 1..Len(Attacks) : \A j \in (i + 1)..Len(Attacks) :
              Attacks[i].Target = Attacks[j].Target =>
                  Attacks[i].Timestamp < Attacks[j].Timestamp

\* both tasks appended twice, their calls having alternated
C27_Witness ==
    /\ \A t \in Tasks : At(t, "done") /\ tasks[t].op = "AddAttack" /\ tasks[t].n = 2
    /\ Attacks = <<TaskFinding("t2", 1), TaskFinding("t1", 1),
                   TaskFinding("t2", 2), TaskFinding("t1", 2)>>

-----------------------------------------------------------------------------
(* The two cascades on hosts where every tool prints a line of its own      *)

\* the tools of a sampler's cascade, in the order of the code
CascadeOrder(task) ==
    IF task = "bluetooth"
    THEN <<"hcitool scan", "btmgmt find", "bluetoothctl devices">>
    ELSE <<"hcitool lescan", "bluetoothctl scan on", "btmgmt find", "hcitool scan">>

\* the name under which a tool reports its device on these hosts
ToolTag(cmd) ==
    IF cmd = "hcitool scan"
    THEN <<"h", "c", "i", " ", "t", "e", "s", "t", " ", "p", "r", "o", "x", "y">>
    ELSE IF cmd = "btmgmt find" THEN <<"m", "g", "m", "t">>
    ELSE IF cmd = "bluetoothctl devices" THEN <<"c", "t", "l">>
    ELSE IF cmd = "hcitool lescan" THEN <<"l", "e">>
    ELSE IF cmd = "bluetoothctl scan on" THEN <<"o", "n">>
    ELSE <<"?">>

\* the output of a tool that works: one line the sampler parses to one device
OutputBy(task, cmd) ==
    IF task = "bluetooth" THEN HciLine(<<"A", "1">>, ToolTag(cmd))
    ELSE <<"A", "1", ":", " ">> \o ToolTag(cmd)

\* what a tool gives on these hosts: its line, or a failure without output
CascadeResult(task, cmd, ok) ==
    IF ok THEN [code |-> 0, err |-> FALSE, output |-> OutputBy(task, cmd)]
    ELSE [code |-> 1, err |-> TRUE, output |-> <<>>]

CascadeBtHosts ==
    {[hcitool |-> CascadeResult("bluetooth", "hcitool scan", a),
      btmgmt |-> CascadeResult("bluetooth", "btmgmt find", b),
      bluetoothctl |-> CascadeResult("bluetooth", "bluetoothctl devices", c)] :
        a \in BOOLEAN, b \in BOOLEAN, c \in BOOLEAN}

CascadeBleHosts ==
    {[lescan |-> CascadeResult("airtag", "hcitool lescan", a),
      scanOn |-> CascadeResult("airtag", "bluetoothctl scan on", b),
      btmgmt |-> CascadeResult("airtag", "btmgmt find", c),
      scan |-> CascadeResult("airtag", "hcitool scan", e)] :
        a \in BOOLEAN, b \in BOOLEAN, c \in BOOLEAN, e \in BOOLEAN}

CascadeBtStep ==
    \E host \in CascadeBtHosts :
        MonitorBluetooth_ScanFailed(host) \/ MonitorBluetooth_Clear(host)

CascadeBleStep ==
    \E host \in CascadeBleHosts :
        MonitorAirTag_ScanFailed(host) \/ MonitorAirTag_Clear(host)

CascadesNext ==
    \/ MonitorBluetooth_Init
    \/ CascadeBtStep
    \/ MonitorBluetooth_Append
    \/ MonitorBluetooth_Status
    \/ MonitorBluetooth_Detect
    \/ MonitorBluetooth_AddAttack
    \/ MonitorBluetooth_Return
    \/ MonitorAirTag_Init
    \/ CascadeBleStep
    \/ MonitorAirTag_Append
    \/ MonitorAirTag_Status

SpecCascades == LogSpecInit /\ [][CascadesNext]_vars

IsPrefix(s, full) ==
    /\ Len(s) <= Len(full)
    /\ \A i \in 1..Len(s) : s[i] = full[i]

\* the devices a sampler parses of an output
ParsedOf(task, output) ==
    IF task = "bluetooth" THEN ParseBtScan(output) ELSE ParseBleScan(output)

\* The cascade step c of sampler `task` invoked the tools `invoked`: they are
\* the first tools of the cascade in its order, each invoked after every
\* earlier one failed, so none after a success; when the step published,
\* `parsed` is what the sampler parses of the output of the last one.
CascadeHolds(task, c, invoked, published, parsed) ==
    /\ invoked # <<>>
    /\ IsPrefix(invoked, CascadeOrder(task))
    /\ invoked = [i \in 1..Len(c.tried) |-> c.tried[i].cmd]
    /\ \A i \in 1..(Len(c.tried) - 1) : c.tried[i].err
    /\ c.err = c.tried[Len(c.tried)].err
    /\ published = ~c.err
    /\ published =>
          /\ c.output = OutputBy(task, invoked[Len(invoked)])
          /\ parsed = ParsedOf(task, c.output)

\* this step is the cascade step of sampler `task`
CascadeStep(task) == pc[task] = "scan" /\ pc'[task] # "scan"

\* C28 as stated: in both samplers the commands run are the first tools of
\* the cascade in its order, each run only after every earlier one failed,
\* none after the first success, and the output parsed is that of the last
\* command run.
C28_CascadeStopsAtFirstSuccess ==
    [][\A task \in {"bluetooth", "airtag"} :
          CascadeStep(task) =>
              CascadeHolds(task, scanCall', scanCall'.runs,
                           pc'[task] = "append", loc'[task].parsed)]_vars

\* the commands of a cascade step that are tools of the cascade
CascadeTools(c) ==
    LET NotScanOff(cmd) == cmd # "bluetoothctl scan off"
    IN  SelectSeq(c.runs, NotScanOff)

\* the only command run that is no tool of the cascade is `bluetoothctl scan
\* off`, run right after a `bluetoothctl scan on` that worked
ScanOffPairs(c) ==
    \A i \in 1..Len(c.runs) :
        c.runs[i] = "bluetoothctl scan off" =>
            /\ i > 1
            /\ c.runs[i - 1] = "bluetoothctl scan on"
            /\ ~c.tried[i - 1].err
            /\ i = Len(c.runs)

\* C28 (amended): in both samplers the tools of the cascade that are invoked
\* are the first ones in its order, each invoked only after every earlier one
\* failed, no tool of the cascade is invoked after the first success (a
\* bluetoothctl scan on that worked is followed only by its bluetoothctl scan
\* off), and the output parsed is that of the last tool of the cascade
\* invoked.
C28_CascadeToolsStopAtFirstSuccess ==
    [][\A task \in {"bluetooth", "airtag"} :
          CascadeStep(task) =>
              /\ CascadeHolds(task, scanCall', CascadeTools(scanCall'),
                              pc'[task] = "append", loc'[task].parsed)
              /\ ScanOffPairs(scanCall')]_vars

\* a BLE pass in which hcitool lescan failed and bluetoothctl scan on worked:
\* scan off was run after it and the device scan on printed is being published
C28_Witness ==
    /\ scanCall.task = "airtag"
    /\ scanCall.runs = <<"hcitool lescan", "bluetoothctl scan on", "bluetoothctl scan off">>
    /\ pc.airtag = "append"
    /\ loc.airtag.parsed = <<[Address |-> <<"A", "1", ":">>, Data |-> <<"o", "n">>, RSSI |-> 0]>>
    /\ passes.bluetooth > 0

\* C29: a cascade step of the BLE pass whose last tool exited with the
\* timeout code does not set the airtag status to error: the pass goes on to
\* publish what it parses of the output.
C29_TimeoutIsBenign ==
    [][(/\ CascadeStep("airtag")
        /\ scanCall'.code = TimeoutCode) =>
            /\ ServiceStatuses'["airtag"].Status # "error"
            /\ pc'.airtag = "append"]_vars

\* C30: in a Bluetooth classic pass the findings log changes only in the
\* closing loop, by the append of the next finding; the loop is entered with
\* the findings DetectBluetoothAttacks returns for BtDevices, which is then the
\* set the pass parsed and published, and is left when all were appended; the
\* set stays as published meanwhile; a pass whose cascade failed ends at once
\* with the log as it was.
C30_FindingsOfPublishedSet ==
    [][/\ Attacks' # Attacks =>
             /\ pc.bluetooth = "add"
             /\ loc.bluetooth.attacks # <<>>
             /\ Attacks' = Append(Attacks, Head(loc.bluetooth.attacks))
             /\ loc'.bluetooth.attacks = Tail(loc.bluetooth.attacks)
       /\ (pc.bluetooth # "add" /\ pc'.bluetooth = "add") =>
             /\ BtDevices = loc.bluetooth.parsed
             /\ loc'.bluetooth.attacks = DetectBluetoothAttacks(BtDevices)
             /\ Attacks' = Attacks
       /\ pc.bluetooth = "add" => BtDevices' = BtDevices
       /\ (pc.bluetooth = "add" /\ pc'.bluetooth # "add") =>
             loc.bluetooth.attacks = <<>>
       /\ FailedToolStep("bluetooth") =>
             /\ pc'.bluetooth = "idle"
             /\ Attacks' = Attacks
      ]_vars

\* a pass that published a device with two findings has returned: the log
\* holds both, in the order DetectBluetoothAttacks returns them
C30_Witness ==
    /\ pc.bluetooth = "idle"
    /\ passes.bluetooth = 1
    /\ Len(BtDevices) = 1
    /\ Len(Attacks) = 2
    /\ Attacks = DetectBluetoothAttacks(BtDevices)
    /\ Attacks[1].Type = "BLUETOOTH_SPOOFING"
    /\ Attacks[2].Type = "BLUETOOTH_MITM"

-----------------------------------------------------------------------------
(* The health record at the end of a Wi-Fi pass                            *)

\* the last tool step of the Wi-Fi pass published a sample
WifiPublished == scanCall.task = "wifi" /\ ~scanCall.err

\* C31: when a Wi-Fi pass has returned, the wifi health record is "error" with
\* a non-empty message if the pass published no sample (airodump-ng missing,
\* no wireless interface, scan failure), and "running" with an empty message
\* if the fallback scan succeeded and replaced the sample, whether or not the
\* monitor-interface setup had failed earlier in the pass.
C31_WifiRecordAtPassEnd ==
    (pc.wifi = "idle" /\ passes.wifi > 0) =>
        LET r == ServiceStatuses["wifi"]
        IN  IF WifiPublished
            THEN /\ r.Status = "running"
                 /\ r.ErrorMsg = ""
                 /\ WifiAPs = ParseIwScan(scanCall.output)
            ELSE /\ r.Status = "error"
                 /\ r.ErrorMsg # ""

\* a pass whose monitor-interface setup failed went on to a fallback scan
\* that found access points: the record is "running" again
C31_Witness ==
    /\ pc.wifi = "idle"
    /\ passes.wifi > 0
    /\ loc.wifi.err # ""
    /\ WifiPublished
    /\ WifiAPs # <<>>
    /\ ServiceStatuses["wifi"].Status = "running"

-----------------------------------------------------------------------------
(* The published Wi-Fi sample and the weak-encryption heuristic            *)

\* the findings DetectWiFiAttacks can return for the published access points
PublishedWifiFindings ==
    UNION {{DetectWiFiAttacks(WifiAPs, order)[i] :
                i \in 1..Len(DetectWiFiAttacks(WifiAPs, order))} :
           order \in RangeOrders(ssidCounts(WifiAPs))}

\* C37: every published WifiAP has the encryption tag "WPA2" and the
\* published WifiClients is empty, so DetectWiFiAttacks on the published
\* access points returns no WEAK_ENCRYPTION finding.
C37_PublishedTagIsWPA2 ==
    /\ \A i \in 1..Len(WifiAPs) : WifiAPs[i].ENC = <<"W", "P", "A", "2">>
    /\ WifiClients = <<>>
    /\ \A f \in PublishedWifiFindings : f.Type # "WEAK_ENCRYPTION"

\* two access points of one SSID are published: the heuristics do return a
\* finding for them, an EVIL_TWIN
C37_Witness ==
    /\ pc.wifi = "idle"
    /\ Len(WifiAPs) = 2
    /\ WifiPublished
    /\ \E f \in PublishedWifiFindings : f.Type = "EVIL_TWIN"

-----------------------------------------------------------------------------
(* The samplers, the findings log and the Blocker statement by statement:  *)
(* the statements that take or release a lock, run an external command,     *)
(* create a health record or assign Status and ErrorMsg. The statements     *)
(* between them (parsing, LogEntries, LastUpdate, the samples themselves)   *)
(* are followed in the sections above and are left out here.                *)

\* how many times a task goes round the loops of one call
MaxTurns == 1

\* statement i of a function: its kind k, the lock, command or domain a it
\* names, the statements `to` that can follow it (0: the function returns),
\* the statement `no` that follows a test that fails, the statements `back`
\* that follow it by a further turn of a loop, whether a command runs under
\* timeout(1), and the value v assigned
Stmt(i, k, a, to) ==
    [i |-> i, k |-> k, a |-> a, to |-> to, no |-> 0, back |-> {}, timed |-> FALSE,
     v |-> "", msg |-> ""]

\* m.Lock(), m.Unlock(), m.RLock(), m.RUnlock()
Acquire(i, m) == Stmt(i, "Lock", m, {i + 1})
Release(i, m, to) == Stmt(i, "Unlock", m, to)
RAcquire(i, m) == Stmt(i, "RLock", m, {i + 1})
RRelease(i, m, to) == Stmt(i, "RUnlock", m, to)

\* exec.Command("timeout", "N", cmd...) run to its end
Timed(i, cmd, to) == [Stmt(i, "Tool", cmd, to) EXCEPT !.timed = TRUE]

\* exec.Command(cmd...) run to its end
Untimed(i, cmd, to) == Stmt(i, "Tool", cmd, to)

\* a test that takes no lock and runs no command
Branch(i, a, to) == Stmt(i, "Branch", a, to)

\* statement s, which closes the body of a loop that goes round again at `back`
Loop(s, back) == [s EXCEPT !.back = {back}]

\* m.Lock(); <the sample is assigned or appended to>; m.Unlock()
LockSection(i, m, to) == <<Acquire(i, m), Release(i + 1, m, to)>>

\* the first StatusMu section of every sampler, the map created without the
\* test for nil
StatusInitAlwaysMakes(d, name, to) ==
    <<Acquire(1, "StatusMu"),
      Stmt(2, "Branch", d, {3}),
      Stmt(3, "Make", d, {4}),
      [Stmt(4, "IfNoRecord", d, {5}) EXCEPT !.no = 6],
      [Stmt(5, "New", d, {6}) EXCEPT !.v = name],
      Release(6, "StatusMu", to)>>

\* the first StatusMu section of every sampler:
\* if ServiceStatuses == nil { ServiceStatuses = make(...) }
\* if ServiceStatuses[d] == nil { ServiceStatuses[d] = &ServiceStatus{...} }
StatusInit(d, name, to) ==
    <<Acquire(1, "StatusMu"),
      [Stmt(2, "IfNil", d, {3}) EXCEPT !.no = 4],
      Stmt(3, "Make", d, {4}),
      [Stmt(4, "IfNoRecord", d, {5}) EXCEPT !.no = 6],
      [Stmt(5, "New", d, {6}) EXCEPT !.v = name],
      Release(6, "StatusMu", to)>>

\* a StatusMu section that sets Status to "running" and leaves ErrorMsg
StatusSectionKeepsMsg(i, d, status, msg, to) ==
    <<Acquire(i, "StatusMu"),
      [Stmt(i + 1, "Status", d, {i + 2}) EXCEPT
          !.v = status,
          !.msg = IF status = "running" THEN "unchanged" ELSE msg],
      Release(i + 2, "StatusMu", to)>>

\* StatusMu.Lock(); ServiceStatuses[d].Status = status;
\* ServiceStatuses[d].ErrorMsg = msg; ...; StatusMu.Unlock()
StatusSection(i, d, status, msg, to) ==
    <<Acquire(i, "StatusMu"),
      [Stmt(i + 1, "Status", d, {i + 2}) EXCEPT !.v = status, !.msg = msg],
      Release(i + 2, "StatusMu", to)>>

\* MonitorWifi with getOrCreateMonitorInterface, getWifiInterfaces and
\* fallbackScanWifi in line
MonitorWifiStmts ==
    StatusInit("wifi", "WiFi Monitoring", {7, 10})
    \o StatusSection(7, "wifi", "error", "airodump-ng not installed", {0})
    \o <<Untimed(10, "iwconfig", {11, 19}),
         Untimed(11, "cat /proc/net/wireless", {12, 13, 16}),
         Untimed(12, "iwconfig", {13, 16}),
         Untimed(13, "ifconfig down", {14}),
         Untimed(14, "iwconfig mode monitor", {15, 16}),
         Untimed(15, "ifconfig up", {19})>>
    \o StatusSection(16, "wifi", "error", "Error setting up monitor interface", {22})
    \o StatusSection(19, "wifi", "running", "", {22})
    \o <<Untimed(22, "cat /proc/net/wireless", {23, 24, 27}),
         Untimed(23, "iwconfig", {24, 27})>>
    \o StatusSection(24, "wifi", "error", "No wireless interfaces found", {0})
    \o <<Timed(27, "iw scan", {28, 31})>>
    \o StatusSection(28, "wifi", "error", "iw scan failed", {0})
    \o LockSection(31, "WifiMu", {33})
    \o StatusSection(33, "wifi", "running", "", {0})

\* MonitorNetwork with the ping run inside the first StatusMu section
MonitorNetworkStmtsPingLocked ==
    SubSeq(StatusInit("network", "Network Monitoring", {7}), 1, 5)
    \o <<Untimed(6, "ping", {7})>>
    \o <<Release(7, "StatusMu", {8, 13})>>
    \o StatusSection(8, "network", "error", "Network is offline", {11})
    \o LockSection(11, "NetMu", {0})
    \o StatusSection(13, "network", "running", "", {16})
    \o LockSection(16, "NetMu", {0})

MonitorNetworkStmts ==
    StatusInit("network", "Network Monitoring", {7})
    \o <<Untimed(7, "ping", {8, 13})>>
    \o StatusSection(8, "network", "error", "Network is offline", {11})
    \o LockSection(11, "NetMu", {0})
    \o StatusSection(13, "network", "running", "", {16})
    \o LockSection(16, "NetMu", {0})

\* MonitorBluetooth with the calls of AddAttack in line
MonitorBluetoothStmts ==
    StatusInit("bluetooth", "Bluetooth Monitoring", {7})
    \o <<Timed(7, "hcitool scan", {8, 13}),
         Timed(8, "btmgmt find", {9, 13}),
         Timed(9, "bluetoothctl devices", {10, 13})>>
    \o StatusSection(10, "bluetooth", "error", "All Bluetooth scanning methods failed", {0})
    \o LockSection(13, "BtMu", {15, 17})
    \o <<Acquire(15, "BtMu"), Loop(Release(16, "BtMu", {17}), 15)>>
    \o StatusSection(17, "bluetooth", "running", "", {20})
    \o <<RAcquire(20, "BtMu"), RRelease(21, "BtMu", {0, 22})>>
    \o <<Acquire(22, "AttackMu"), Loop(Release(23, "AttackMu", {0}), 22)>>

MonitorAirTagStmts ==
    StatusInit("airtag", "AirTag Monitoring", {7})
    \o <<Timed(7, "hcitool lescan", {8, 15}),
         Timed(8, "bluetoothctl scan on", {9, 10}),
         Timed(9, "bluetoothctl scan off", {15}),
         Timed(10, "btmgmt find", {11, 15}),
         Timed(11, "hcitool scan", {12, 15})>>
    \o StatusSection(12, "airtag", "error", "All BLE scanning methods failed", {0})
    \o LockSection(15, "BleMu", {17, 19})
    \o <<Acquire(17, "BleMu"), Loop(Release(18, "BleMu", {19}), 17)>>
    \o StatusSection(19, "airtag", "running", "", {0})

\* MonitorRadio with getWifiInterfaces in line
MonitorRadioStmts ==
    StatusInit("radio", "Radio Frequency Monitoring", {7})
    \o <<Untimed(7, "sh -c lsusb", {8}),
         Untimed(8, "cat /proc/net/wireless", {9, 10, 11, 12}),
         Untimed(9, "iwconfig", {10, 11, 12}),
         Loop(Untimed(10, "iwconfig iface", {11, 12}), 10),
         Timed(11, "rtl_power", {12})>>
    \o LockSection(12, "RadioMu", {14})
    \o StatusSection(14, "radio", "running", "", {0})

AddAttackStmts == LockSection(1, "AttackMu", {0})

GetRecentAttacksStmts == <<RAcquire(1, "AttackMu"), RRelease(2, "AttackMu", {0})>>

\* a block or an unblock method of the Blocker: the lock, the test of the
\* map, the tool, the deferred Unlock
BlockStmts ==
    <<Acquire(1, "b.mu"),
      Branch(2, "exists", {3, 4}),
      Untimed(3, "sudo", {4}),
      Release(4, "b.mu", {0})>>

\* AutoBlockAttack holding b.mu.RLock() from the test of the flag on
AutoBlockAttackStmtsLocked ==
    <<RAcquire(1, "b.mu"),
      Branch(2, "autoBlock", {3, 7}),
      Acquire(3, "b.mu"),
      Branch(4, "exists", {5, 6}),
      Untimed(5, "sudo", {6}),
      Release(6, "b.mu", {7}),
      RRelease(7, "b.mu", {0})>>

\* AutoBlockAttack with the call of BlockIP or BlockBluetoothDevice in line
AutoBlockAttackStmts ==
    <<Branch(1, "autoBlock", {0, 2}),
      Acquire(2, "b.mu"),
      Branch(3, "exists", {4, 5}),
      Untimed(4, "sudo", {5}),
      Release(5, "b.mu", {0})>>

GetBlockedItemsStmts == <<RAcquire(1, "b.mu"), RRelease(2, "b.mu", {0})>>

SetAutoBlockStmts == LockSection(1, "b.mu", {0})

\* a reader of the presentation layer: the sample or the health records are
\* read under the shared lock
ReaderStmts(m) == <<RAcquire(1, m), RRelease(2, m, {0})>>

SamplerOps ==
    {"MonitorWifi", "MonitorNetwork", "MonitorBluetooth", "MonitorAirTag", "MonitorRadio"}

ReaderLocks == {"WifiMu", "BtMu", "BleMu", "RadioMu", "NetMu", "StatusMu"}

OtherOps ==
    {"AddAttack", "GetRecentAttacks", "Block", "AutoBlockAttack", "GetBlockedItems",
     "SetAutoBlock"}

StmtsOf(op) ==
    CASE op = "MonitorWifi" -> MonitorWifiStmts
      [] op = "MonitorNetwork" -> MonitorNetworkStmts
      [] op = "MonitorBluetooth" -> MonitorBluetoothStmts
      [] op = "MonitorAirTag" -> MonitorAirTagStmts
      [] op = "MonitorRadio" -> MonitorRadioStmts
      [] op = "AddAttack" -> AddAttackStmts
      [] op = "GetRecentAttacks" -> GetRecentAttacksStmts
      [] op = "Block" -> BlockStmts
      [] op = "AutoBlockAttack" -> AutoBlockAttackStmts
      [] op = "GetBlockedItems" -> GetBlockedItemsStmts
      [] op = "SetAutoBlock" -> SetAutoBlockStmts
      [] op \in ReaderLocks -> ReaderStmts(op)

\* the statement task t is at
Cur(t) == StmtsOf(tasks[t].op)[tasks[t].at]

Running(t, k) ==
    /\ tasks[t].op \in SamplerOps \cup OtherOps \cup ReaderLocks
    /\ tasks[t].pc = "run"
    /\ Cur(t).k = k

\* task t at statement n (0: returned), one turn further if n is a loop's head
MovedTo(t, n) ==
    [tasks EXCEPT ![t] =
        [op |-> @.op,
         pc |-> IF n = 0 THEN "done" ELSE "run",
         at |-> n,
         turns |-> IF n = 0 THEN 0
                   ELSE IF n \in Cur(t).back THEN @.turns + 1 ELSE @.turns]]

\* the statements that can follow the one task t is at
Successors(t) ==
    Cur(t).to \cup (IF tasks[t].turns < MaxTurns THEN Cur(t).back ELSE {})

\* what the statements leave alone
StmtFrame ==
    <<logVars, blkVars, logged, WifiAPs, WifiClients, BtDevices, BleDevices,
      scanCall, fnCall, pc, loc, passes, seen>>

\* a task calls op
Stmt_Call(t, op) ==
    /\ tasks[t].op = "none"
    /\ tasks' = [tasks EXCEPT ![t] = [op |-> op, pc |-> "run", at |-> 1, turns |-> 0]]
    /\ UNCHANGED <<StmtFrame, ServiceStatuses, mu>>

Stmt_Lock(t) ==
    /\ Running(t, "Lock")
    /\ Lock(Cur(t).a, t)
    /\ \E n \in Successors(t) : tasks' = MovedTo(t, n)
    /\ UNCHANGED <<StmtFrame, ServiceStatuses>>

Stmt_Unlock(t) ==
    /\ Running(t, "Unlock")
    /\ Unlock(Cur(t).a, t)
    /\ \E n \in Successors(t) : tasks' = MovedTo(t, n)
    /\ UNCHANGED <<StmtFrame, ServiceStatuses>>

Stmt_RLock(t) ==
    /\ Running(t, "RLock")
    /\ RLock(Cur(t).a, t)
    /\ \E n \in Successors(t) : tasks' = MovedTo(t, n)
    /\ UNCHANGED <<StmtFrame, ServiceStatuses>>

Stmt_RUnlock(t) ==
    /\ Running(t, "RUnlock")
    /\ RUnlock(Cur(t).a, t)
    /\ \E n \in Successors(t) : tasks' = MovedTo(t, n)
    /\ UNCHANGED <<StmtFrame, ServiceStatuses>>

Stmt_Branch(t) ==
    /\ Running(t, "Branch")
    /\ \E n \in Successors(t) : tasks' = MovedTo(t, n)
    /\ UNCHANGED <<StmtFrame, ServiceStatuses, mu>>

\* if ServiceStatuses == nil: the map is nil until the first make, and holds
\* a record from the end of the section that made it
Stmt_IfNil(t) ==
    /\ Running(t, "IfNil")
    /\ tasks' = MovedTo(t, IF ServiceStatuses = NoStatuses
                           THEN CHOOSE n \in Cur(t).to : TRUE
                           ELSE Cur(t).no)
    /\ UNCHANGED <<StmtFrame, ServiceStatuses, mu>>

\* ServiceStatuses = make(map[string]*ServiceStatus)
Stmt_Make(t) ==
    /\ Running(t, "Make")
    /\ ServiceStatuses' = NoStatuses
    /\ \E n \in Successors(t) : tasks' = MovedTo(t, n)
    /\ UNCHANGED <<StmtFrame, mu>>

\* if ServiceStatuses[d] == nil
Stmt_IfNoRecord(t) ==
    /\ Running(t, "IfNoRecord")
    /\ tasks' = MovedTo(t, IF Cur(t).a \notin DOMAIN ServiceStatuses
                           THEN CHOOSE n \in Cur(t).to : TRUE
                           ELSE Cur(t).no)
    /\ UNCHANGED <<StmtFrame, ServiceStatuses, mu>>

\* ServiceStatuses[d] = &ServiceStatus{Name: ..., Status: "running", ...}
Stmt_New(t) ==
    /\ Running(t, "New")
    /\ ServiceStatuses' =
          [d \in DOMAIN ServiceStatuses \cup {Cur(t).a} |->
              IF d = Cur(t).a THEN NewServiceStatus(Cur(t).v) ELSE ServiceStatuses[d]]
    /\ \E n \in Successors(t) : tasks' = MovedTo(t, n)
    /\ UNCHANGED <<StmtFrame, mu>>

\* ServiceStatuses[d].Status = v; ServiceStatuses[d].ErrorMsg = msg; with
\* no record for d the pointer is nil and the task goes no further
Stmt_Status(t) ==
    /\ Running(t, "Status")
    /\ Cur(t).a \in DOMAIN ServiceStatuses
    /\ ServiceStatuses' =
          [ServiceStatuses EXCEPT ![Cur(t).a] =
              [@ EXCEPT !.Status = Cur(t).v,
                        !.ErrorMsg = IF Cur(t).msg = "unchanged" THEN @ ELSE Cur(t).msg]]
    /\ \E n \in Successors(t) : tasks' = MovedTo(t, n)
    /\ UNCHANGED <<StmtFrame, mu>>

\* cmd.Output(), cmd.CombinedOutput(), cmd.Run() or runCommandOrSudo starts
\* the command: on this host it exits by itself or it never does; under
\* timeout(1) it is ended in either case
Tool_Start(t, exits) ==
    /\ Running(t, "Tool")
    /\ tasks' = [tasks EXCEPT ![t].pc = IF exits \/ Cur(t).timed THEN "tool" ELSE "stuck"]
    /\ UNCHANGED <<StmtFrame, ServiceStatuses, mu>>

\* the command has ended and the call returns
Tool_Return(t) ==
    /\ tasks[t].op \in SamplerOps \cup OtherOps \cup ReaderLocks
    /\ tasks[t].pc = "tool"
    /\ \E n \in Successors(t) : tasks' = MovedTo(t, n)
    /\ UNCHANGED <<StmtFrame, ServiceStatuses, mu>>

StmtCall == \E t \in Tasks, op \in SamplerOps \cup OtherOps \cup ReaderLocks : Stmt_Call(t, op)
StmtLock == \E t \in Tasks : Stmt_Lock(t)
StmtUnlock == \E t \in Tasks : Stmt_Unlock(t)
StmtRLock == \E t \in Tasks : Stmt_RLock(t)
StmtRUnlock == \E t \in Tasks : Stmt_RUnlock(t)
StmtBranch == \E t \in Tasks : Stmt_Branch(t)
StmtIfNil == \E t \in Tasks : Stmt_IfNil(t)
StmtMake == \E t \in Tasks : Stmt_Make(t)
StmtIfNoRecord == \E t \in Tasks : Stmt_IfNoRecord(t)
StmtNew == \E t \in Tasks : Stmt_New(t)
StmtStatus == \E t \in Tasks : Stmt_Status(t)
ToolStart == \E t \in Tasks, exits \in BOOLEAN : Tool_Start(t, exits)
ToolReturn == \E t \in Tasks : Tool_Return(t)

StmtsNext ==
    \/ StmtCall \/ StmtLock \/ StmtUnlock \/ StmtRLock \/ StmtRUnlock \/ StmtBranch
    \/ StmtIfNil \/ StmtMake \/ StmtIfNoRecord \/ StmtNew \/ StmtStatus
    \/ ToolStart \/ ToolReturn

SpecStmts == Init /\ [][StmtsNext]_vars

\* the same with weak fairness: a task that can take a step is scheduled
SpecStmtsFair == Init /\ [][StmtsNext]_vars /\ WF_vars(StmtsNext)

\* the locks task t holds, shared or exclusively
Held(t) == {m \in Locks : HoldsRLock(m, t)}

\* an external command started by task t has not returned
InFlight(t) == tasks[t].pc \in {"tool", "stuck"}

\* C32: every pass of a sampler returns, whatever the commands it invokes do
\* by themselves, since every command runs under a bounded timeout.
C32_EveryPassReturns ==
    \A t \in Tasks :
        [](tasks[t].op \in SamplerOps => <>(tasks[t].pc = "done"))

\* the domain of the health record a sampler creates
HealthDomain(op) == StmtsOf(op)[5].a

\* task t, as `ts` has it, has left the first StatusMu section of its pass
PastInit(ts, t) ==
    /\ ts[t].op \in SamplerOps
    /\ ts[t].pc = "done" \/ ts[t].at > 6

\* a statement of task t that assigns the map or the record of d is executed
Assigns(t, d) ==
    /\ tasks'[t] # tasks[t]
    /\ \/ Running(t, "Make")
       \/ Running(t, "New") /\ Cur(t).a = d

\* C33: a health record is created by the first pass of its sampler and is
\* never deleted or replaced: a key of ServiceStatuses stays, no statement
\* assigns the map or the key's record again, every record was created by a
\* sampler of its domain, and every sampler that has left its first StatusMu
\* section has its record in the map, whatever ran concurrently.
C33_RecordsCreatedOnceAndKept ==
    [][/\ \A d \in DOMAIN ServiceStatuses :
             /\ d \in DOMAIN ServiceStatuses'
             /\ ServiceStatuses'[d].Name = ServiceStatuses[d].Name
             /\ \A t \in Tasks : ~Assigns(t, d)
       /\ \A d \in DOMAIN ServiceStatuses' :
             \E t \in Tasks :
                 /\ tasks[t].op \in SamplerOps
                 /\ HealthDomain(tasks[t].op) = d
       /\ \A t \in Tasks :
             PastInit(tasks', t) => HealthDomain(tasks'[t].op) \in DOMAIN ServiceStatuses'
      ]_vars

\* the passes of two different samplers have returned: both records are there
C33_Witness ==
    /\ \A t \in Tasks : tasks[t].op \in SamplerOps /\ tasks[t].pc = "done"
    /\ Cardinality(DOMAIN ServiceStatuses) = 2
    /\ DOMAIN ServiceStatuses = {HealthDomain(tasks[t].op) : t \in Tasks}

\* C34: in every health record the error message is empty exactly when the
\* status is "running", and the status is "running" or "error".
C34_MessageEmptyIffRunning ==
    \A d \in DOMAIN ServiceStatuses :
        /\ ServiceStatuses[d].Status \in {"running", "error"}
        /\ (ServiceStatuses[d].ErrorMsg = "") <=> (ServiceStatuses[d].Status = "running")

\* a Wi-Fi pass whose record went to "error" and back to "running" has
\* returned, and the record of another sampler is in "error"
C34_Witness ==
    /\ \E t \in Tasks : tasks[t].op = "MonitorWifi" /\ tasks[t].pc = "done"
    /\ "wifi" \in DOMAIN ServiceStatuses
    /\ ServiceStatuses["wifi"].Status = "running"
    /\ \E d \in DOMAIN ServiceStatuses :
          /\ ServiceStatuses[d].Status = "error"
          /\ ServiceStatuses[d].ErrorMsg # ""

\* task t is at a Lock() or an RLock() that cannot return now
Waiting(t) ==
    \/ Running(t, "Lock") /\ ~CanLock(mu[Cur(t).a])
    \/ Running(t, "RLock") /\ ~CanRLock(mu[Cur(t).a])

\* the tasks that hold lock m
Holders(m) == {t \in Tasks : HoldsRLock(m, t)}

\* a set of waiting tasks every one of which waits for a lock that only
\* tasks of the set hold
Deadlocked ==
    \E S \in SUBSET Tasks :
        /\ S # {}
        /\ \A t \in S : Waiting(t) /\ Holders(Cur(t).a) \subseteq S

\* C35: a task that is at a Lock() or an RLock() holds no lock, no task holds
\* two locks, and no set of tasks wait for one another.
C35_OneLockAtATime ==
    /\ \A t \in Tasks :
          /\ Cardinality(Held(t)) <= 1
          /\ (Running(t, "Lock") \/ Running(t, "RLock")) => Held(t) = {}
    /\ ~Deadlocked

\* AutoBlockAttack is inside the block method it called, holding b.mu, and
\* the other task waits at the Lock() of a block method
C35_Witness ==
    \E t \in Tasks, u \in Tasks :
        /\ tasks[t].op = "AutoBlockAttack"
        /\ Held(t) = {"b.mu"}
        /\ tasks[u].op = "Block"
        /\ Waiting(u)

\* C36: a sampler that is about to start an external command, or has one in
\* flight, holds no lock.
C36_NoLockAcrossTool ==
    \A t \in Tasks :
        (tasks[t].op \in SamplerOps /\ (InFlight(t) \/ Running(t, "Tool"))) =>
            Held(t) = {}

\* the ping of MonitorNetwork is in flight and will not exit; a reader holds
\* StatusMu meanwhile
C36_Witness ==
    \E t \in Tasks, u \in Tasks :
        /\ tasks[t].op = "MonitorNetwork"
        /\ tasks[t].pc = "stuck"
        /\ tasks[u].op = "StatusMu"
        /\ Held(u) = {"StatusMu"}

\* every statement stands at its own index and names statements of its
\* function only
WellFormed(op) ==
    LET p == StmtsOf(op)
    IN  \A i \in 1..Len(p) :
            /\ p[i].i = i
            /\ p[i].to \cup p[i].back \cup {p[i].no} \subseteq 0..Len(p)
            /\ p[i].to # {}

StmtsWellFormed == \A op \in SamplerOps \cup OtherOps \cup ReaderLocks : WellFormed(op)

====
